---- MODULE Spec2Model ----
(***************************************************************************)
(* The repository mirror of flux (git.Repo, src/git/repo.go): its          *)
(* readiness state machine, the Start/refresh loop, the foreground         *)
(* operations Ready, Refresh, Notify, Clean, and the two capacity-one      *)
(* signals.  Every git invocation is an external call that is "in flight"  *)
(* between the action that starts it and the action that returns from it;  *)
(* its outcome is chosen by the environment.  Two goroutines use the       *)
(* mirror: the one running Start, and a foreground one that invokes the    *)
(* public operations one after another.                                    *)
(***************************************************************************)
EXTENDS Integers, Sequences, FiniteSets, TLC

VARIABLES
    url,            \* Repo.origin.URL
    readonly,       \* Repo.readonly
    stateMode,      \* Repo.stateMode
    status,         \* Repo.status
    err,            \* Repo.err
    dir,            \* Repo.dir
    fs,             \* what is on disk at the path getTempDirectory returned
    notify,         \* number of values buffered in Repo.notify
    C,              \* number of values buffered in Repo.C
    muW,            \* holder of the write side of Repo.mu
    muR,            \* holders of the read side of Repo.mu
    pc,             \* position of each goroutine
    ldir,           \* step's local `dir`
    lerr,           \* the error a goroutine holds in a local `err`
    adv,            \* value returned by the goroutine's last step()
    ret,            \* value returned by the goroutine's last Ready/Refresh
    shutdown,       \* the shutdown channel has been closed
    gitPoll,        \* state of refreshLoop's timer
    done,           \* counter of the WaitGroup passed to Start
    fgCalls,        \* operations the foreground goroutine has invoked
    progress,       \* steps that returned true in the current Ready call
    failed,         \* a git invocation of the current foreground call failed
    notifyDropped,  \* a Notify() found the pending notification in its way
    cpc,            \* position of the goroutine using the Checkout and the providers
    conf,           \* Config.NotesRef the Checkout was made with
    realNotesRef,   \* Checkout.realNotesRef
    tree,           \* working tree: clean, changes under Paths, or only elsewhere
    head,           \* number of the commit HEAD of the checkout points to
    notes,          \* git notes of the checkout, by full ref and revision
    upHead,         \* number of the commit the upstream branch points to
    note,           \* argument `note` of CommitAndPush
    rev,            \* local `rev` of CommitAndPush
    cret,           \* error returned by CommitAndPush or UpdateMarker
    gret,           \* result of GetNote
    rret,           \* result of GetRevision
    coCalls,        \* calls made on the checkout and the providers
    hadChanges,     \* the call began with changes under Paths
    committed,      \* the call created a commit
    noted,          \* the call attached a note
    pushes,         \* pushes attempted by the call
    pushRes,        \* result of the call's push
    lastNote,       \* note of the last successful CommitAndPush with a note
    lastRev,        \* HEAD that CommitAndPush left
    localTag,       \* revision of the sync tag in the provider's workingDir
    upTag,          \* revision of the sync tag upstream
    umRev,          \* SyncMarkerAction.Revision of the call
    prevRev,        \* revision of the tag when UpdateMarker was called
    tagMoved,       \* the call moved the local tag
    umOutcome,      \* how the last UpdateMarker ended
    shimRev,        \* nativeShim.data.FluxSync.Revision
    shimWritten,    \* the shim holds a revision written by UpdateMarker
    gitRan,         \* the git command of the last read ran and was not cut short
    mirrorHead,     \* number of the commit the mirror's branch points to
    mirrorTag,      \* revision of the sync tag in the mirror
    cloneSrcs,      \* repositories the current Clone call has read from
    probed,         \* goroutines whose current step made a successful checkPush
    ops,            \* external operations of the current CommitAndPush, in order
    refs,           \* local `refs` of CommitAndPush
    cmRev,          \* configMapShim.data.FluxSync.Revision
    cmName,         \* Config.SyncMarkerName of the checkout of the last marker call
    lastUm,         \* revision of the last UpdateMarker of the resource-backed provider that no DeleteMarker followed
    tagUm,          \* revision of the last UpdateMarker of the tag provider that returned nil
    stranded,       \* the last CommitAndPush committed, its push failed, no edit since
    fin,            \* arguments of the function being applied
    fout            \* its result

vars == <<url, readonly, stateMode, status, err, dir, fs, notify, C, muW, muR, pc,
          ldir, lerr, adv, ret, shutdown, gitPoll, done, fgCalls, progress,
          failed, notifyDropped, cpc, conf, realNotesRef, tree, head, notes,
          upHead, note, rev, cret, gret, rret, coCalls, hadChanges, committed,
          noted, pushes, pushRes, lastNote, lastRev, localTag, upTag, umRev,
          prevRev, tagMoved, umOutcome, shimRev, shimWritten, gitRan,
          mirrorHead, mirrorTag, cloneSrcs, probed, ops, refs, cmRev, cmName,
          lastUm, tagUm, stranded, fin, fout>>

(* ---------------- bounds ---------------- *)
MaxFgCalls == 2
\* the count of progressing steps saturates here
MaxProgress == 3
\* calls made on the checkout and the sync providers
MaxCoCalls == 3
\* commits made in the checkout
MaxCommits == 2

(* ---------------- values of the program ---------------- *)
RepoNoConfig == "unconfigured"
RepoNew == "new"
RepoCloned == "cloned"
RepoReady == "ready"

GitTagStateMode == "GitTag"
NativeStateMode == "Native"

\* errors are sequences of strings, so that a wrapped error keeps its cause
Nil == <<>>
ErrNoConfig == <<"ErrNoConfig">>
ErrNotCloned == <<"ErrNotCloned">>
ErrClonedOnly == <<"ErrClonedOnly">>
MirrorErr == <<"git clone --mirror">>
FetchErr == <<"git fetch --tags">>
CheckPushErr == <<"attempt to push tag">>
ReadErr == <<"git rev-list">>
CloneErr == <<"git clone">>
ConfigErr == <<"git config">>
NotesFetchErr == <<"git fetch notes">>
NotReadyError(underlying) == <<"NotReadyError">> \o underlying

NoDir == ""
TmpDir == "/tmp/flux-gitclone"
SomeURL == "git@host:repo"

StartP == "start"
FgP == "fg"
Procs == {StartP, FgP}
NoProc == "none"

\* positions at which a git invocation is in flight
ExternalPcs == {"mirror", "fetch", "checkPush", "refresh_fetch"}
\* positions at which a read operation's git invocation on r.dir is in flight
ReadExternalPcs == {"read_ext", "wc_ext", "nf_ext"}
\* positions at which a foreground call has its result
FgReturnPcs == {"ready_done", "refresh_ret", "read_ret", "clone_ret"}

(* ---------------- helpers translated from the source ---------------- *)

\* NewRepo without the test for an empty URL
NewRepoStatus_NoCheck(u) == RepoNew

\* NewRepo: the status a mirror is constructed with
NewRepoStatus(u) == IF u = "" THEN RepoNoConfig ELSE RepoNew

\* a send that queues instead of dropping
NotifySend_Queue(n) == n + 1

\* Notify: `select { case r.notify <- struct{}{}: default: }`, capacity one
NotifySend(n) == IF n < 1 THEN n + 1 ELSE n

\* a refreshed() that publishes nothing
Refreshed_Silent(c) == c

\* refreshed: `select { case r.C <- struct{}{}: default: }`, capacity one
Refreshed(c) == IF c < 1 THEN c + 1 ELSE c

\* a check of readiness that lets a cloned mirror pass
errorIfNotReady_ClonedOk(s, e) ==
    IF s \in {RepoReady, RepoCloned} THEN Nil
    ELSE IF s = RepoNoConfig THEN ErrNoConfig
    ELSE NotReadyError(e)
\* errorIfNotReady, lines 205-214
errorIfNotReady(s, e) ==
    IF s = RepoReady THEN Nil
    ELSE IF s = RepoNoConfig THEN ErrNoConfig
    ELSE NotReadyError(e)

\* a probe run for every mirror
NeedsCheckPush_Always(ro, mode) == TRUE
\* a probe run only for the tag-backed marker
NeedsCheckPush_TagOnly(ro, mode) == mode = GitTagStateMode
\* step, case RepoCloned: is the write probe run?
NeedsCheckPush(ro, mode) == (~ro) \/ mode = GitTagStateMode

\* a failed probe that sends the mirror back to RepoNew
CheckPushFailStatus_New == RepoNew
\* the status step records after a failed probe
CheckPushFailStatus == RepoCloned
\* the status step records after a failed clone or initial fetch
MirrorFailStatus == RepoNew
\* a Start that demotes no further than RepoCloned
RefreshFailStatus_Cloned == RepoCloned
\* the status Start records when refreshLoop returned an error
RefreshFailStatus == RepoNew
\* a setReady that keeps the old error
SetReadyErr_Keep(e) == e
\* the error setReady records
SetReadyErr(e) == Nil
\* the status Clean leaves
CleanStatus(s) == RepoNew

\* a working clone made from the origin
WorkingCloneSource_Remote(d, u) == u
\* line 417: `clone(ctx, working, r.dir, ref)`, the repository cloned from
WorkingCloneSource(d, u) == d
\* line 448: `fetch(ctx, repoDir, r.dir, ...)`, the repository fetched from
NotesFetchSource(d, u) == d

\* os.RemoveAll(d): the empty path is left alone
RemoveAll(d, f) == IF d = NoDir THEN f ELSE "absent"

\* exec.Cmd with Dir = d: `git clone --mirror url d` needs d to exist and be
\* empty; a command that works on a repository needs d to hold the clone.
\* With d = "" the command runs in the working directory of the process,
\* which holds no clone of the origin.
MirrorCanSucceed(d, f) == d # NoDir /\ f = "empty"
RepoCmdCanSucceed(d, f) == d # NoDir /\ f = "mirror"

\* a reader that does not wait for the writer
RLockFree_Always(w) == TRUE
\* r.mu.RLock() can be taken: no goroutine holds the write side
RLockFree(w) == w = NoProc
\* r.mu.Lock() can be taken: nobody holds either side
LockFree(w, rs) == w = NoProc /\ rs = {}

\* `if !t.Stop() { <-t.C }`: Stop reports false for a timer that has expired;
\* when its tick has been received already the receive waits for ever
TimerDrainBlocks(t) == t = "idle"

\* a Start that gives up whenever the mirror is not ready
StartReturns_NotReady(s) == s # RepoReady
\* Start, lines 334-335: the status on which Start returns
StartReturns(s) == s = RepoNoConfig

\* the results the environment can give an invocation
Outcomes(can) == IF can THEN {TRUE, FALSE} ELSE {FALSE}

(* ---------------- values of the checkout and the sync providers ---------------- *)

\* the zero value of a revision string, and the revision of commit number i
ZeroRev == <<>>
RevOf(i) == <<"sha", i>>
Revisions == {RevOf(i) : i \in 0..MaxCommits}

\* a fetch that leaves a tag the mirror already has where it is
FetchedTag_KeepExisting(up, mine) == IF mine = ZeroRev THEN up ELSE mine
\* repo.go line 399 with part_002 line 139: `git fetch --tags origin` in the
\* mirror, whose refspec is +refs/*:refs/*: a fetch that succeeds leaves
\* every ref, the tags with it, as the origin has it
FetchedTag(up, mine) == up

\* a nil note, and the notes a caller passes: a struct of two fields
NilNote == <<>>
NoteArgs == {<<j, n>> : j \in {"x", "y"}, n \in {0, 1}}
\* no note is stored for the object
NoNote == <<>>

NotesRefs == {<<"flux">>, <<"refs", "notes", "flux">>}
FullNotesRefs == {<<"refs", "notes", "flux">>}

ErrNoChanges == <<"ErrNoChanges">>
GitErr == <<"running git command">>
CommitErr == <<"git commit">> \o GitErr
PushErr == <<"git push">> \o GitErr
MoveTagErr == <<"moving tag">> \o GitErr
PushTagErr == <<"pushing tag to origin">> \o GitErr
DecodeErr == <<"json: decode">>

\* the distinguished push error: it carries the remote and the cause
PushError(u, e) == <<"PushError", u>> \o e

\* a CommitAndPush that hands on the error of push as it is
PushFailResult_Raw(u, e) == e
\* CommitAndPush: what is returned when push failed
PushFailResult(u, e) == PushError(u, e)

\* an encoding that drops the second field
Marshal_Lossy(n) == <<"{", "a", n[1], "b", 0, "}">>
\* addNote: json.Marshal(note), the message of the git note
Marshal(n) == <<"{", "a", n[1], "b", n[2], "}">>
\* getNote: json.NewDecoder(out).Decode(note)
WellFormed(b) == Len(b) = 6 /\ b[1] = "{" /\ b[6] = "}"
Decode(b) == <<b[3], b[5]>>

\* the full ref git uses for `--ref r`, which `git notes get-ref` prints
GitNotesRef(r) ==
    IF Len(r) >= 2 /\ r[1] = "refs" /\ r[2] = "notes" THEN r
    ELSE IF Len(r) >= 1 /\ r[1] = "notes" THEN <<"refs">> \o r
    ELSE <<"refs", "notes">> \o r

\* a check that takes a diff that did not run for "no changes"
check_FailedMeansClean(t, ran) == ran /\ t = "paths"
\* check: `git diff --quiet -- paths` exits with 1 when there are changes
\* under the paths; every error of execGitCmd counts as "changed"
check(t, ran) == (~ran) \/ t = "paths"

\* `git commit --all` has something to commit
CommitCanSucceed(t) == t # "clean"

\* getNote: "no note found for object" is (false, nil); any other failure of
\* the command is an error; the output is decoded
getNote(store, ref, r, ran) ==
    IF ~ran THEN [found |-> FALSE, note |-> NilNote, err |-> GitErr]
    ELSE IF store[GitNotesRef(ref)][r] = NoNote
         THEN [found |-> FALSE, note |-> NilNote, err |-> Nil]
    ELSE IF ~WellFormed(store[GitNotesRef(ref)][r])
         THEN [found |-> FALSE, note |-> NilNote, err |-> DecodeErr]
    ELSE [found |-> TRUE, note |-> Decode(store[GitNotesRef(ref)][r]),
          err |-> Nil]

\* refRevision: `git rev-list --max-count 1 ref`
refRevision(r, ran) ==
    IF ran /\ r # ZeroRev THEN [rev |-> r, err |-> Nil]
    ELSE [rev |-> ZeroRev, err |-> GitErr]

\* an UpdateMarker that does not report the failed push
UmPushResult_Swallow(ok) == Nil
\* UpdateMarker: what is returned after the push of the tag
UmPushResult(ok) == IF ok THEN Nil ELSE PushTagErr

NoNoteResult == [found |-> FALSE, note |-> NilNote, err |-> Nil]
NoRevResult == [rev |-> ZeroRev, err |-> Nil]

\* Config.SyncMarkerName of the checkouts of the process
MarkerNames == {"flux-sync-a", "flux-sync-b"}
NoName == ""

\* repo.go lines 447-453: the notes of the working clone when Clone returns:
\* those the mirror had under the notes ref, a note on the first commit or
\* none
FetchedNotes(full, fetched) ==
    [f \in FullNotesRefs |->
        [r \in Revisions |->
            IF fetched /\ f = full /\ r = RevOf(0) THEN Marshal(<<"x", 0>>)
            ELSE NoNote]]

\* part_002 lines 147-156 (refExists): `git rev-list ref` finds the ref when
\* some note has been stored under it
NotesRefExists(store, full) == \E r \in Revisions : store[full][r] # NoNote

\* Config.Branch as a ref
Branch == <<"refs", "heads", "master">>

\* a push of the branch alone
PushRefs_BranchOnly(exists, full) == <<Branch>>
\* working.go lines 108-116: the refs of the push
PushRefs(exists, full) == IF exists THEN <<Branch, full>> ELSE <<Branch>>

\* a CommitAndPush that never attaches the note
AfterCommit_NoNote(n) == "cp_refexists"
\* working.go line 98: `if note != nil`, the step after a successful commit
AfterCommit(n) == IF n # NilNote THEN "cp_head" ELSE "cp_refexists"

\* a Checkout as Clone returns it, the sync tag at `tag`, the shim of the
\* resource-backed marker as the process starts with it
CheckoutState(c, nr, tag, fetched) ==
    /\ cpc = c
    /\ conf = nr
    /\ realNotesRef = GitNotesRef(nr)
    /\ tree = "clean"
    /\ head = 0
    /\ notes = FetchedNotes(GitNotesRef(nr), fetched)
    /\ upHead = 0
    /\ note = NilNote
    /\ rev = ZeroRev
    /\ cret = Nil
    /\ gret = NoNoteResult
    /\ rret = NoRevResult
    /\ coCalls = 0
    /\ hadChanges = FALSE
    /\ committed = FALSE
    /\ noted = FALSE
    /\ pushes = 0
    /\ pushRes = "none"
    /\ lastNote = NilNote
    /\ lastRev = ZeroRev
    /\ localTag = tag
    /\ upTag = tag
    /\ umRev = ZeroRev
    /\ prevRev = ZeroRev
    /\ tagMoved = FALSE
    /\ umOutcome = "none"
    /\ shimRev = ZeroRev
    /\ shimWritten = FALSE
    /\ gitRan = FALSE
    /\ ops = <<>>
    /\ refs = <<>>
    /\ cmRev = ZeroRev
    /\ cmName = NoName
    /\ lastUm = ZeroRev
    /\ tagUm = ZeroRev
    /\ stranded = FALSE
    /\ fin = <<>>
    /\ fout = <<>>

(* ---------------- Init: the state NewRepo returns ---------------- *)
Init ==
    /\ url \in {"", SomeURL}
    /\ readonly \in BOOLEAN
    /\ stateMode \in {GitTagStateMode, NativeStateMode}
    /\ status = NewRepoStatus(url)
    /\ err = ErrNotCloned
    /\ dir = TmpDir
    /\ fs = "empty"
    /\ notify = 0
    /\ C = 0
    /\ muW = NoProc
    /\ muR = {}
    /\ pc = [p \in Procs |-> IF p = StartP THEN "st_init" ELSE "idle"]
    /\ ldir = [p \in Procs |-> NoDir]
    /\ lerr = [p \in Procs |-> Nil]
    /\ adv = [p \in Procs |-> FALSE]
    /\ ret = [p \in Procs |-> Nil]
    /\ shutdown = FALSE
    /\ gitPoll = "idle"
    /\ done = 1
    /\ fgCalls = 0
    /\ progress = 0
    /\ failed = FALSE
    /\ notifyDropped = FALSE
    /\ mirrorHead = 0
    /\ mirrorTag = ZeroRev
    /\ cloneSrcs = {}
    /\ probed = {}
    /\ CheckoutState("none", <<"flux">>, ZeroRev, FALSE)

cfgVars == <<url, readonly, stateMode>>
\* what the mirror directory holds and what the current call has done with it
mVars == <<mirrorHead, mirrorTag, cloneSrcs, probed>>
\* locals of CommitAndPush
kVars == <<ops, refs>>
\* the shim of the resource-backed marker, and the function under application
yVars == <<cmRev, cmName, lastUm, tagUm, stranded, fin, fout>>
\* the variables the mirror's operations never touch
xVars == <<cpc, conf, realNotesRef, tree, head, notes, upHead, note, rev, cret,
          gret, rret, coCalls, hadChanges, committed, noted, pushes, pushRes,
          lastNote, lastRev, localTag, upTag, umRev, prevRev, tagMoved,
          umOutcome, shimRev, shimWritten, gitRan, kVars, yVars>>
\* the variables of the mirror
repoVars == <<cfgVars, status, err, dir, fs, notify, C, muW, muR, pc, ldir, lerr,
             adv, ret, shutdown, gitPoll, done, fgCalls, progress, failed,
             notifyDropped, mVars>>

(* ---------------- Repo.step ---------------- *)

\* lines 247-258, 279-280, 296-297: read the state under the read lock (a
\* reader waits while a writer holds the lock) and dispatch on the status
StepBegin(p) ==
    /\ pc[p] = "step"
    /\ RLockFree(muW)
    /\ IF status = RepoNew
       THEN /\ pc' = [pc EXCEPT ![p] = "mirror"]
            /\ ldir' = [ldir EXCEPT ![p] = dir]
            /\ UNCHANGED adv
       ELSE IF status = RepoCloned
       THEN /\ pc' = [pc EXCEPT ![p] = IF NeedsCheckPush(readonly, stateMode)
                                       THEN "checkPush" ELSE "setReady"]
            /\ ldir' = [ldir EXCEPT ![p] = dir]
            /\ UNCHANGED adv
       ELSE /\ pc' = [pc EXCEPT ![p] = "step_ret"]
            /\ adv' = [adv EXCEPT ![p] = FALSE]
            /\ UNCHANGED ldir
    /\ UNCHANGED <<cfgVars, mVars, muR, xVars, status, err, dir, fs, notify, C, muW, lerr, ret,
                   shutdown, gitPoll, done, fgCalls, progress, failed,
                   notifyDropped>>

\* lines 261-263: mirror(ctx, dir, url) returns; no lock is held
MirrorReturn(p) ==
    /\ pc[p] = "mirror"
    /\ \E ok \in Outcomes(MirrorCanSucceed(ldir[p], fs)) :
         IF ok
         THEN /\ fs' = "mirror"
              /\ mirrorHead' = upHead
              /\ mirrorTag' = FetchedTag(upTag, mirrorTag)
              /\ pc' = [pc EXCEPT ![p] = "fetch_lock"]
              /\ UNCHANGED <<lerr, failed>>
         ELSE /\ lerr' = [lerr EXCEPT ![p] = MirrorErr]
              /\ failed' = (failed \/ p = FgP)
              /\ pc' = [pc EXCEPT ![p] = "step_fail"]
              /\ UNCHANGED <<fs, mirrorHead, mirrorTag>>
    /\ UNCHANGED <<cfgVars, cloneSrcs, probed, muR, xVars, status, err, dir, notify, C, muW, ldir, adv, ret,
                   shutdown, gitPoll, done, fgCalls, progress, notifyDropped>>

\* lines 265-267: take the write lock and start the initial fetch
FetchLock(p) ==
    /\ pc[p] = "fetch_lock"
    /\ LockFree(muW, muR)
    /\ muW' = p
    /\ pc' = [pc EXCEPT ![p] = "fetch"]
    /\ UNCHANGED <<cfgVars, mVars, muR, xVars, status, err, dir, fs, notify, C, ldir, lerr, adv,
                   ret, shutdown, gitPoll, done, fgCalls, progress, failed,
                   notifyDropped>>

\* lines 267-269: r.fetch(ctx) returns (it runs in r.dir); unlock
FetchReturn(p) ==
    /\ pc[p] = "fetch"
    /\ muW' = NoProc
    /\ \E ok \in Outcomes(RepoCmdCanSucceed(dir, fs)) :
         IF ok
         THEN /\ pc' = [pc EXCEPT ![p] = "setCloned"]
              /\ mirrorHead' = upHead
              /\ mirrorTag' = FetchedTag(upTag, mirrorTag)
              /\ UNCHANGED <<lerr, failed>>
         ELSE /\ lerr' = [lerr EXCEPT ![p] = FetchErr]
              /\ failed' = (failed \/ p = FgP)
              /\ pc' = [pc EXCEPT ![p] = "step_fail"]
              /\ UNCHANGED <<mirrorHead, mirrorTag>>
    /\ UNCHANGED <<cfgVars, cloneSrcs, probed, muR, xVars, status, err, dir, fs, notify, C, ldir, adv, ret,
                   shutdown, gitPoll, done, fgCalls, progress, notifyDropped>>

\* lines 271-274: setUnready(RepoCloned, ErrClonedOnly); return true
SetCloned(p) ==
    /\ pc[p] = "setCloned"
    /\ LockFree(muW, muR)
    /\ status' = RepoCloned
    /\ err' = ErrClonedOnly
    /\ adv' = [adv EXCEPT ![p] = TRUE]
    /\ ldir' = [ldir EXCEPT ![p] = NoDir]
    /\ pc' = [pc EXCEPT ![p] = "step_ret"]
    /\ UNCHANGED <<cfgVars, mVars, muR, xVars, dir, fs, notify, C, muW, lerr, ret, shutdown,
                   gitPoll, done, fgCalls, progress, failed, notifyDropped>>

\* line 275: os.RemoveAll(dir) on the local copy of dir; no lock is held
StepRemoveDir(p) ==
    /\ pc[p] = "step_fail"
    /\ fs' = RemoveAll(ldir[p], fs)
    /\ ldir' = [ldir EXCEPT ![p] = NoDir]
    /\ pc' = [pc EXCEPT ![p] = "setNew"]
    /\ UNCHANGED <<cfgVars, mVars, muR, xVars, status, err, dir, notify, C, muW, lerr, adv, ret,
                   shutdown, gitPoll, done, fgCalls, progress, failed,
                   notifyDropped>>

\* lines 276-277: setUnready(RepoNew, err); return false
SetNew(p) ==
    /\ pc[p] = "setNew"
    /\ LockFree(muW, muR)
    /\ status' = MirrorFailStatus
    /\ err' = lerr[p]
    /\ lerr' = [lerr EXCEPT ![p] = Nil]
    /\ adv' = [adv EXCEPT ![p] = FALSE]
    /\ pc' = [pc EXCEPT ![p] = "step_ret"]
    /\ UNCHANGED <<cfgVars, mVars, muR, xVars, dir, fs, notify, C, muW, ldir, ret, shutdown,
                   gitPoll, done, fgCalls, progress, failed, notifyDropped>>

\* lines 281-283: checkPush(ctx, dir, url) returns; no lock is held
CheckPushReturn(p) ==
    /\ pc[p] = "checkPush"
    /\ \E ok \in Outcomes(RepoCmdCanSucceed(ldir[p], fs)) :
         IF ok
         THEN /\ pc' = [pc EXCEPT ![p] = "setReady"]
              /\ probed' = probed \cup {p}
              /\ UNCHANGED <<lerr, failed>>
         ELSE /\ lerr' = [lerr EXCEPT ![p] = CheckPushErr]
              /\ failed' = (failed \/ p = FgP)
              /\ pc' = [pc EXCEPT ![p] = "setClonedFail"]
              /\ UNCHANGED probed
    /\ UNCHANGED <<cfgVars, mirrorHead, mirrorTag, cloneSrcs, muR, xVars, status, err, dir, fs, notify, C, muW, ldir, adv,
                   ret, shutdown, gitPoll, done, fgCalls, progress,
                   notifyDropped>>

\* lines 284-287: setUnready(RepoCloned, err); return false
SetClonedFail(p) ==
    /\ pc[p] = "setClonedFail"
    /\ LockFree(muW, muR)
    /\ status' = CheckPushFailStatus
    /\ err' = lerr[p]
    /\ lerr' = [lerr EXCEPT ![p] = Nil]
    /\ adv' = [adv EXCEPT ![p] = FALSE]
    /\ ldir' = [ldir EXCEPT ![p] = NoDir]
    /\ pc' = [pc EXCEPT ![p] = "step_ret"]
    /\ UNCHANGED <<cfgVars, mVars, muR, xVars, dir, fs, notify, C, muW, ret, shutdown, gitPoll,
                   done, fgCalls, progress, failed, notifyDropped>>

\* lines 290-294: setReady(); refreshed(); return true
SetReady(p) ==
    /\ pc[p] = "setReady"
    /\ LockFree(muW, muR)
    /\ status' = RepoReady
    /\ err' = SetReadyErr(err)
    /\ C' = Refreshed(C)
    /\ probed' = probed \ {p}
    /\ adv' = [adv EXCEPT ![p] = TRUE]
    /\ ldir' = [ldir EXCEPT ![p] = NoDir]
    /\ pc' = [pc EXCEPT ![p] = "step_ret"]
    /\ UNCHANGED <<cfgVars, mirrorHead, mirrorTag, cloneSrcs, muR, xVars, dir, fs, notify, muW, lerr, ret, shutdown,
                   gitPoll, done, fgCalls, progress, failed, notifyDropped>>

Step(p) ==
    \/ StepBegin(p)
    \/ MirrorReturn(p)
    \/ FetchLock(p)
    \/ FetchReturn(p)
    \/ SetCloned(p)
    \/ StepRemoveDir(p)
    \/ SetNew(p)
    \/ CheckPushReturn(p)
    \/ SetClonedFail(p)
    \/ SetReady(p)

(* ---------------- Repo.Ready, called by the foreground ---------------- *)

\* line 306: Ready(ctx) is entered
ReadyCall ==
    /\ pc[FgP] = "idle"
    /\ fgCalls < MaxFgCalls
    /\ fgCalls' = fgCalls + 1
    /\ pc' = [pc EXCEPT ![FgP] = "step"]
    /\ UNCHANGED <<cfgVars, mVars, muR, xVars, status, err, dir, fs, notify, C, muW, ldir, lerr,
                   adv, ret, shutdown, gitPoll, done, progress, failed,
                   notifyDropped>>

\* lines 307-309: `for r.step(ctx) {}`
ReadyLoop ==
    /\ pc[FgP] = "step_ret"
    /\ IF adv[FgP]
       THEN /\ progress' = IF progress < MaxProgress THEN progress + 1
                            ELSE progress
            /\ pc' = [pc EXCEPT ![FgP] = "step"]
       ELSE /\ pc' = [pc EXCEPT ![FgP] = "ready_status"]
            /\ UNCHANGED progress
    /\ adv' = [adv EXCEPT ![FgP] = FALSE]
    /\ UNCHANGED <<cfgVars, mVars, muR, xVars, status, err, dir, fs, notify, C, muW, ldir, lerr,
                   ret, shutdown, gitPoll, done, fgCalls, failed,
                   notifyDropped>>

\* lines 310-311 with Status (164-168): `_, err := r.Status(); return err`
ReadyStatus ==
    /\ pc[FgP] = "ready_status"
    /\ RLockFree(muW)
    /\ ret' = [ret EXCEPT ![FgP] = err]
    /\ pc' = [pc EXCEPT ![FgP] = "ready_done"]
    /\ UNCHANGED <<cfgVars, mVars, muR, xVars, status, err, dir, fs, notify, C, muW, ldir, lerr,
                   adv, shutdown, gitPoll, done, fgCalls, progress, failed,
                   notifyDropped>>

\* the caller of Ready, Refresh, a read operation or Clone goes on
FgReturn ==
    /\ pc[FgP] \in FgReturnPcs
    /\ pc' = [pc EXCEPT ![FgP] = "idle"]
    /\ ret' = [ret EXCEPT ![FgP] = Nil]
    /\ progress' = 0
    /\ failed' = FALSE
    /\ cloneSrcs' = {}
    /\ UNCHANGED <<cfgVars, mirrorHead, mirrorTag, probed, muR, xVars, status, err, dir, fs, notify, C, muW, ldir, lerr,
                   adv, shutdown, gitPoll, done, fgCalls, notifyDropped>>

FgStep == Step(FgP)

\* one goroutine driving the state machine with Ready(), nothing else
NextSeq ==
    \/ ReadyCall
    \/ FgStep
    \/ ReadyLoop
    \/ ReadyStatus
    \/ FgReturn

SpecSeq == Init /\ [][NextSeq]_vars

(* ---------------- Repo.Refresh ---------------- *)

\* lines 356-361: take the write lock; return the not-ready error, or start
\* the fetch with the lock held
RefreshLock(p) ==
    /\ pc[p] = "refresh_lock"
    /\ LockFree(muW, muR)
    /\ IF errorIfNotReady(status, err) # Nil
       THEN /\ ret' = [ret EXCEPT ![p] = errorIfNotReady(status, err)]
            /\ pc' = [pc EXCEPT ![p] = "refresh_ret"]
            /\ UNCHANGED muW
       ELSE /\ muW' = p
            /\ pc' = [pc EXCEPT ![p] = "refresh_fetch"]
            /\ UNCHANGED ret
    /\ UNCHANGED <<cfgVars, mVars, muR, xVars, status, err, dir, fs, notify, C, ldir, lerr, adv,
                   shutdown, gitPoll, done, fgCalls, progress, failed,
                   notifyDropped>>

\* a Refresh that demotes the mirror itself when its fetch fails
RefreshFetchReturn_Demote(p) ==
    /\ pc[p] = "refresh_fetch"
    /\ muW' = NoProc
    /\ pc' = [pc EXCEPT ![p] = "refresh_ret"]
    /\ \E ok \in Outcomes(RepoCmdCanSucceed(dir, fs)) :
         IF ok
         THEN /\ C' = Refreshed(C)
              /\ mirrorHead' = upHead
              /\ mirrorTag' = FetchedTag(upTag, mirrorTag)
              /\ ret' = [ret EXCEPT ![p] = Nil]
              /\ UNCHANGED <<failed, status, err>>
         ELSE /\ ret' = [ret EXCEPT ![p] = FetchErr]
              /\ failed' = (failed \/ p = FgP)
              /\ status' = RepoNew
              /\ err' = FetchErr
              /\ UNCHANGED <<C, mirrorHead, mirrorTag>>
    /\ UNCHANGED <<cfgVars, cloneSrcs, probed, muR, xVars, dir, fs, notify, ldir, lerr, adv,
                   shutdown, gitPoll, done, fgCalls, progress, notifyDropped>>

\* lines 361-365: r.fetch(ctx) returns; on success refreshed(); unlock
RefreshFetchReturn(p) ==
    /\ pc[p] = "refresh_fetch"
    /\ muW' = NoProc
    /\ pc' = [pc EXCEPT ![p] = "refresh_ret"]
    /\ \E ok \in Outcomes(RepoCmdCanSucceed(dir, fs)) :
         IF ok
         THEN /\ C' = Refreshed(C)
              /\ mirrorHead' = upHead
              /\ mirrorTag' = FetchedTag(upTag, mirrorTag)
              /\ ret' = [ret EXCEPT ![p] = Nil]
              /\ UNCHANGED failed
         ELSE /\ ret' = [ret EXCEPT ![p] = FetchErr]
              /\ failed' = (failed \/ p = FgP)
              /\ UNCHANGED <<C, mirrorHead, mirrorTag>>
    /\ UNCHANGED <<cfgVars, cloneSrcs, probed, muR, xVars, status, err, dir, fs, notify, ldir, lerr, adv,
                   shutdown, gitPoll, done, fgCalls, progress, notifyDropped>>

Refresh(p) == RefreshLock(p) \/ RefreshFetchReturn(p)

\* a foreground caller enters Refresh(ctx)
RefreshCall ==
    /\ pc[FgP] = "idle"
    /\ fgCalls < MaxFgCalls
    /\ fgCalls' = fgCalls + 1
    /\ pc' = [pc EXCEPT ![FgP] = "refresh_lock"]
    /\ UNCHANGED <<cfgVars, mVars, muR, xVars, status, err, dir, fs, notify, C, muW, ldir, lerr,
                   adv, ret, shutdown, gitPoll, done, progress, failed,
                   notifyDropped>>

FgRefresh == Refresh(FgP)

(* ---------------- the read operations and Clone ---------------- *)

\* a foreground caller enters Revision, CommitsBefore or CommitsBetween
ReadCall ==
    /\ pc[FgP] = "idle"
    /\ fgCalls < MaxFgCalls
    /\ fgCalls' = fgCalls + 1
    /\ pc' = [pc EXCEPT ![FgP] = "read_lock"]
    /\ UNCHANGED <<cfgVars, mVars, muR, xVars, status, err, dir, fs, notify, C, muW,
                   ldir, lerr, adv, ret, shutdown, gitPoll, done, progress,
                   failed, notifyDropped>>

\* lines 218-222 (227-231, 236-240): take the read lock; return the
\* not-ready error, or start the git command on r.dir with the lock held
ReadLock ==
    /\ pc[FgP] = "read_lock"
    /\ RLockFree(muW)
    /\ IF errorIfNotReady(status, err) # Nil
       THEN /\ ret' = [ret EXCEPT ![FgP] = errorIfNotReady(status, err)]
            /\ pc' = [pc EXCEPT ![FgP] = "read_ret"]
            /\ UNCHANGED muR
       ELSE /\ muR' = muR \cup {FgP}
            /\ pc' = [pc EXCEPT ![FgP] = "read_ext"]
            /\ UNCHANGED ret
    /\ UNCHANGED <<cfgVars, mVars, xVars, status, err, dir, fs, notify, C, muW,
                   ldir, lerr, adv, shutdown, gitPoll, done, fgCalls,
                   progress, failed, notifyDropped>>

\* lines 223 (232, 241): the git command returns; the deferred RUnlock runs
ReadReturn ==
    /\ pc[FgP] = "read_ext"
    /\ muR' = muR \ {FgP}
    /\ pc' = [pc EXCEPT ![FgP] = "read_ret"]
    /\ \E ok \in Outcomes(RepoCmdCanSucceed(dir, fs)) :
         ret' = [ret EXCEPT ![FgP] = IF ok THEN Nil ELSE ReadErr]
    /\ UNCHANGED <<cfgVars, mVars, xVars, status, err, dir, fs, notify, C, muW,
                   ldir, lerr, adv, shutdown, gitPoll, done, fgCalls,
                   progress, failed, notifyDropped>>

\* a foreground caller enters Clone(ctx, conf)
CloneCall ==
    /\ pc[FgP] = "idle"
    /\ fgCalls < MaxFgCalls
    /\ fgCalls' = fgCalls + 1
    /\ pc' = [pc EXCEPT ![FgP] = "wc_lock"]
    /\ UNCHANGED <<cfgVars, mVars, muR, xVars, status, err, dir, fs, notify, C, muW,
                   ldir, lerr, adv, ret, shutdown, gitPoll, done, progress,
                   failed, notifyDropped>>

\* lines 408-412 and 429-432: workingClone takes the read lock; Clone returns
\* the not-ready error, or the clone from r.dir starts with the lock held
WorkingCloneLock ==
    /\ pc[FgP] = "wc_lock"
    /\ RLockFree(muW)
    /\ IF errorIfNotReady(status, err) # Nil
       THEN /\ ret' = [ret EXCEPT ![FgP] = errorIfNotReady(status, err)]
            /\ pc' = [pc EXCEPT ![FgP] = "clone_ret"]
            /\ UNCHANGED muR
       ELSE /\ muR' = muR \cup {FgP}
            /\ pc' = [pc EXCEPT ![FgP] = "wc_ext"]
            /\ UNCHANGED ret
    /\ UNCHANGED <<cfgVars, mVars, xVars, status, err, dir, fs, notify, C, muW,
                   ldir, lerr, adv, shutdown, gitPoll, done, fgCalls,
                   progress, failed, notifyDropped>>

\* lines 413-417: TempDir and `git clone` from r.dir return; RUnlock
WorkingCloneReturn ==
    /\ pc[FgP] = "wc_ext"
    /\ muR' = muR \ {FgP}
    /\ cloneSrcs' = cloneSrcs \cup {WorkingCloneSource(dir, url)}
    /\ \E ok \in Outcomes(RepoCmdCanSucceed(dir, fs)) :
         IF ok
         THEN /\ pc' = [pc EXCEPT ![FgP] = "clone_cfg"]
              /\ UNCHANGED ret
         ELSE /\ pc' = [pc EXCEPT ![FgP] = "clone_ret"]
              /\ ret' = [ret EXCEPT ![FgP] = CloneErr]
    /\ UNCHANGED <<cfgVars, mirrorHead, mirrorTag, probed, xVars, status, err, dir, fs, notify, C, muW,
                   ldir, lerr, adv, shutdown, gitPoll, done, fgCalls,
                   progress, failed, notifyDropped>>

\* lines 434-445: config and getNotesRef work on the working clone, no lock
CloneConfig ==
    /\ pc[FgP] = "clone_cfg"
    /\ \E ok \in BOOLEAN :
         IF ok
         THEN /\ pc' = [pc EXCEPT ![FgP] = "nf_lock"]
              /\ UNCHANGED ret
         ELSE /\ pc' = [pc EXCEPT ![FgP] = "clone_ret"]
              /\ ret' = [ret EXCEPT ![FgP] = ConfigErr]
    /\ UNCHANGED <<cfgVars, mVars, muR, xVars, status, err, dir, fs, notify, C, muW,
                   ldir, lerr, adv, shutdown, gitPoll, done, fgCalls,
                   progress, failed, notifyDropped>>

\* lines 447-448: the read lock is taken again, with no test of the status,
\* and the fetch of the notes ref from r.dir starts
NotesFetchLock ==
    /\ pc[FgP] = "nf_lock"
    /\ RLockFree(muW)
    /\ muR' = muR \cup {FgP}
    /\ pc' = [pc EXCEPT ![FgP] = "nf_ext"]
    /\ UNCHANGED <<cfgVars, mVars, xVars, status, err, dir, fs, notify, C, muW,
                   ldir, lerr, adv, ret, shutdown, gitPoll, done, fgCalls,
                   progress, failed, notifyDropped>>

\* a Clone whose error path returns without the RUnlock
NotesFetchReturn_KeepOnError ==
    /\ pc[FgP] = "nf_ext"
    /\ cloneSrcs' = cloneSrcs \cup {NotesFetchSource(dir, url)}
    /\ pc' = [pc EXCEPT ![FgP] = "clone_ret"]
    /\ \E ok \in Outcomes(RepoCmdCanSucceed(dir, fs)) :
         /\ ret' = [ret EXCEPT ![FgP] = IF ok THEN Nil ELSE NotesFetchErr]
         /\ muR' = IF ok THEN muR \ {FgP} ELSE muR
    /\ UNCHANGED <<cfgVars, mirrorHead, mirrorTag, probed, xVars, status, err, dir, fs, notify, C, muW,
                   ldir, lerr, adv, shutdown, gitPoll, done, fgCalls,
                   progress, failed, notifyDropped>>

\* lines 448-462: the fetch returns; RUnlock; the Checkout or the error
NotesFetchReturn ==
    /\ pc[FgP] = "nf_ext"
    /\ muR' = muR \ {FgP}
    /\ cloneSrcs' = cloneSrcs \cup {NotesFetchSource(dir, url)}
    /\ pc' = [pc EXCEPT ![FgP] = "clone_ret"]
    /\ \E ok \in Outcomes(RepoCmdCanSucceed(dir, fs)) :
         ret' = [ret EXCEPT ![FgP] = IF ok THEN Nil ELSE NotesFetchErr]
    /\ UNCHANGED <<cfgVars, mirrorHead, mirrorTag, probed, xVars, status, err, dir, fs, notify, C, muW,
                   ldir, lerr, adv, shutdown, gitPoll, done, fgCalls,
                   progress, failed, notifyDropped>>

(* ---------------- Notify, Clean, the listener on C ---------------- *)

\* lines 186-193: Notify(), by any goroutine
Notify ==
    /\ notify' = NotifySend(notify)
    /\ notifyDropped' = (notify >= 1)
    /\ UNCHANGED <<cfgVars, mVars, muR, xVars, status, err, dir, fs, C, muW, pc, ldir, lerr,
                   adv, ret, shutdown, gitPoll, done, fgCalls, progress,
                   failed>>

\* lines 151-159: Clean(), called by the foreground
Clean ==
    /\ pc[FgP] = "idle"
    /\ fgCalls < MaxFgCalls
    /\ fgCalls' = fgCalls + 1
    /\ LockFree(muW, muR)
    /\ fs' = RemoveAll(dir, fs)
    /\ dir' = NoDir
    /\ status' = CleanStatus(status)
    /\ UNCHANGED <<cfgVars, mVars, muR, xVars, err, notify, C, muW, pc, ldir, lerr, adv, ret,
                   shutdown, gitPoll, done, progress, failed, notifyDropped>>

\* whoever listens on Repo.C receives the pending signal
ReceiveC ==
    /\ C > 0
    /\ C' = C - 1
    /\ UNCHANGED <<cfgVars, mVars, muR, xVars, status, err, dir, fs, notify, muW, pc, ldir,
                   lerr, adv, ret, shutdown, gitPoll, done, fgCalls,
                   progress, failed, notifyDropped>>

(* ---------------- Repo.Start and Repo.refreshLoop ---------------- *)

\* lines 316-321: the goroutine running Start enters the loop
StartCall ==
    /\ pc[StartP] = "st_init"
    /\ pc' = [pc EXCEPT ![StartP] = "step"]
    /\ UNCHANGED <<cfgVars, mVars, muR, xVars, status, err, dir, fs, notify, C, muW, ldir, lerr,
                   adv, ret, shutdown, gitPoll, done, fgCalls, progress,
                   failed, notifyDropped>>

\* lines 324-326: `if advanced { continue }`
StartAdvanced ==
    /\ pc[StartP] = "step_ret"
    /\ pc' = [pc EXCEPT ![StartP] = IF adv[StartP] THEN "step" ELSE "st_status"]
    /\ adv' = [adv EXCEPT ![StartP] = FALSE]
    /\ UNCHANGED <<cfgVars, mVars, muR, xVars, status, err, dir, fs, notify, C, muW, ldir, lerr,
                   ret, shutdown, gitPoll, done, fgCalls, progress, failed,
                   notifyDropped>>

\* lines 328-336 and 369: Status(); enter refreshLoop (which creates the
\* timer), return on RepoNoConfig (the deferred done.Done() runs), or go on
\* to the backoff timer
StartStatus ==
    /\ pc[StartP] = "st_status"
    /\ RLockFree(muW)
    /\ IF status = RepoReady
       THEN /\ pc' = [pc EXCEPT ![StartP] = "rl_select"]
            /\ gitPoll' = "armed"
            /\ UNCHANGED done
       ELSE IF StartReturns(status)
       THEN /\ pc' = [pc EXCEPT ![StartP] = "st_done"]
            /\ done' = done - 1
            /\ UNCHANGED gitPoll
       ELSE /\ pc' = [pc EXCEPT ![StartP] = "st_backoff"]
            /\ UNCHANGED <<gitPoll, done>>
    /\ UNCHANGED <<cfgVars, mVars, muR, xVars, status, err, dir, fs, notify, C, muW, ldir, lerr,
                   adv, ret, shutdown, fgCalls, progress, failed,
                   notifyDropped>>

\* lines 338-347: select on shutdown and the 10 s timer
StartBackoff ==
    /\ pc[StartP] = "st_backoff"
    /\ \/ /\ shutdown
          /\ pc' = [pc EXCEPT ![StartP] = "st_done"]
          /\ done' = done - 1
       \/ /\ pc' = [pc EXCEPT ![StartP] = "step"]
          /\ UNCHANGED done
    /\ UNCHANGED <<cfgVars, mVars, muR, xVars, status, err, dir, fs, notify, C, muW, ldir, lerr,
                   adv, ret, shutdown, gitPoll, fgCalls, progress, failed,
                   notifyDropped>>

\* lines 372-376: on shutdown `if !gitPoll.Stop() { <-gitPoll.C }`, then
\* refreshLoop returns nil and Start goes on to the backoff select
RlShutdown ==
    /\ pc[StartP] = "rl_select"
    /\ shutdown
    /\ gitPoll' = "idle"
    /\ pc' = [pc EXCEPT ![StartP] = IF TimerDrainBlocks(gitPoll)
                                    THEN "rl_stuck" ELSE "st_backoff"]
    /\ UNCHANGED <<cfgVars, mVars, muR, xVars, status, err, dir, fs, notify, C, muW, ldir, lerr,
                   adv, ret, shutdown, done, fgCalls, progress, failed,
                   notifyDropped>>

\* lines 377-378: the timer's tick is received; r.Notify()
RlTick ==
    /\ pc[StartP] = "rl_select"
    /\ gitPoll = "fired"
    /\ gitPoll' = "idle"
    /\ notify' = NotifySend(notify)
    /\ notifyDropped' = (notify >= 1)
    /\ UNCHANGED <<cfgVars, mVars, muR, xVars, status, err, dir, fs, C, muW, pc, ldir, lerr,
                   adv, ret, shutdown, done, fgCalls, progress, failed>>

\* lines 379-387: a notification is received; the timer is stopped and
\* drained; Refresh is called
RlNotify ==
    /\ pc[StartP] = "rl_select"
    /\ notify > 0
    /\ notify' = notify - 1
    /\ notifyDropped' = FALSE
    /\ gitPoll' = "idle"
    /\ pc' = [pc EXCEPT ![StartP] = "refresh_lock"]
    /\ UNCHANGED <<cfgVars, mVars, muR, xVars, status, err, dir, fs, C, muW, ldir, lerr, adv,
                   ret, shutdown, done, fgCalls, progress, failed>>

\* lines 389-392: Refresh returned; leave the loop with its error, or re-arm
\* the timer and select again
RlRefreshed ==
    /\ pc[StartP] = "refresh_ret"
    /\ IF ret[StartP] # Nil
       THEN /\ lerr' = [lerr EXCEPT ![StartP] = ret[StartP]]
            /\ pc' = [pc EXCEPT ![StartP] = "st_demote"]
            /\ UNCHANGED gitPoll
       ELSE /\ gitPoll' = "armed"
            /\ pc' = [pc EXCEPT ![StartP] = "rl_select"]
            /\ UNCHANGED lerr
    /\ ret' = [ret EXCEPT ![StartP] = Nil]
    /\ UNCHANGED <<cfgVars, mVars, muR, xVars, status, err, dir, fs, notify, C, muW, ldir, adv,
                   shutdown, done, fgCalls, progress, failed, notifyDropped>>

\* a Start that clears the mirror directory when it demotes the mirror
StartDemote_Clear ==
    /\ pc[StartP] = "st_demote"
    /\ LockFree(muW, muR)
    /\ status' = RefreshFailStatus
    /\ err' = lerr[StartP]
    /\ lerr' = [lerr EXCEPT ![StartP] = Nil]
    /\ fs' = RemoveAll(dir, fs)
    /\ pc' = [pc EXCEPT ![StartP] = "step"]
    /\ UNCHANGED <<cfgVars, mVars, muR, xVars, dir, notify, C, muW, ldir, adv, ret,
                   shutdown, gitPoll, done, fgCalls, progress, failed,
                   notifyDropped>>

\* lines 330-333: `r.setUnready(RepoNew, err); continue`
StartDemote ==
    /\ pc[StartP] = "st_demote"
    /\ LockFree(muW, muR)
    /\ status' = RefreshFailStatus
    /\ err' = lerr[StartP]
    /\ lerr' = [lerr EXCEPT ![StartP] = Nil]
    /\ pc' = [pc EXCEPT ![StartP] = "step"]
    /\ UNCHANGED <<cfgVars, mVars, muR, xVars, dir, fs, notify, C, muW, ldir, adv, ret,
                   shutdown, gitPoll, done, fgCalls, progress, failed,
                   notifyDropped>>

\* the poll interval elapses: the timer puts a tick in gitPoll.C
Tick ==
    /\ gitPoll = "armed"
    /\ gitPoll' = "fired"
    /\ UNCHANGED <<cfgVars, mVars, muR, xVars, status, err, dir, fs, notify, C, muW, pc, ldir,
                   lerr, adv, ret, shutdown, done, fgCalls, progress, failed,
                   notifyDropped>>

\* the owner closes the shutdown channel
Shutdown ==
    /\ ~shutdown
    /\ shutdown' = TRUE
    /\ UNCHANGED <<cfgVars, mVars, muR, xVars, status, err, dir, fs, notify, C, muW, pc, ldir,
                   lerr, adv, ret, gitPoll, done, fgCalls, progress, failed,
                   notifyDropped>>

StartStep == Step(StartP)
StartRefresh == Refresh(StartP)

Next ==
    \/ ReadyCall
    \/ FgStep
    \/ ReadyLoop
    \/ ReadyStatus
    \/ FgReturn
    \/ RefreshCall
    \/ FgRefresh
    \/ ReadCall
    \/ ReadLock
    \/ ReadReturn
    \/ CloneCall
    \/ WorkingCloneLock
    \/ WorkingCloneReturn
    \/ CloneConfig
    \/ NotesFetchLock
    \/ NotesFetchReturn
    \/ Notify
    \/ Clean
    \/ ReceiveC
    \/ StartCall
    \/ StartStep
    \/ StartAdvanced
    \/ StartStatus
    \/ StartBackoff
    \/ RlShutdown
    \/ RlTick
    \/ RlNotify
    \/ StartRefresh
    \/ RlRefreshed
    \/ StartDemote
    \/ Tick
    \/ Shutdown

Spec == Init /\ [][Next]_vars

(* ---------------- Start alone, with the scheduling of Go ---------------- *)

\* the steps of the goroutine that runs Start
StartMoves ==
    \/ StartCall
    \/ StartStep
    \/ StartAdvanced
    \/ StartStatus
    \/ StartBackoff
    \/ RlShutdown
    \/ RlTick
    \/ RlNotify
    \/ StartRefresh
    \/ RlRefreshed
    \/ StartDemote

\* lines 339-343: the backoff select takes the case of shutdown
StartBackoffShutdown == StartBackoff /\ pc'[StartP] = "st_done"

\* Start and its environment: timers, Notify, the listener on C, shutdown
NextStart ==
    \/ StartCall
    \/ StartStep
    \/ StartAdvanced
    \/ StartStatus
    \/ StartBackoff
    \/ RlShutdown
    \/ RlTick
    \/ RlNotify
    \/ StartRefresh
    \/ RlRefreshed
    \/ StartDemote
    \/ Tick
    \/ Shutdown
    \/ Notify
    \/ ReceiveC

\* a runnable goroutine runs and every git command returns (weak fairness
\* of Start's steps); a select with several ready cases picks one at random,
\* so a case that is ready again and again is taken (strong fairness of the
\* two cases of shutdown)
SpecStartFair ==
    /\ Init
    /\ [][NextStart]_vars
    /\ WF_vars(StartMoves)
    /\ SF_vars(RlShutdown)
    /\ SF_vars(StartBackoffShutdown)

(* ---------------- Checkout: CommitAndPush and GetNote ---------------- *)

\* the state in which Clone has returned a Checkout of a Ready mirror
InitCo ==
    /\ url = SomeURL
    /\ readonly = FALSE
    /\ stateMode = GitTagStateMode
    /\ status = RepoReady
    /\ err = Nil
    /\ dir = TmpDir
    /\ fs = "mirror"
    /\ notify = 0
    /\ C = 1
    /\ muW = NoProc
    /\ muR = {}
    /\ pc = [p \in Procs |-> IF p = StartP THEN "st_init" ELSE "idle"]
    /\ ldir = [p \in Procs |-> NoDir]
    /\ lerr = [p \in Procs |-> Nil]
    /\ adv = [p \in Procs |-> FALSE]
    /\ ret = [p \in Procs |-> Nil]
    /\ shutdown = FALSE
    /\ gitPoll = "idle"
    /\ done = 1
    /\ fgCalls = MaxFgCalls
    /\ progress = 0
    /\ failed = FALSE
    /\ notifyDropped = FALSE
    /\ mirrorHead = 0
    /\ cloneSrcs = {}
    /\ probed = {}
    /\ \E nr \in NotesRefs, tag \in {ZeroRev, RevOf(0)}, fetched \in BOOLEAN :
         /\ mirrorTag = tag
         /\ CheckoutState("idle", nr, tag, fetched)

\* the user of the checkout edits files, under the configured paths or not
Edit ==
    /\ cpc = "idle"
    /\ tree' \in {"clean", "paths", "other"} \ {tree}
    /\ stranded' = FALSE
    /\ UNCHANGED <<repoVars, kVars, cmRev, cmName, lastUm, tagUm, fin, fout, cpc, conf, realNotesRef, head, notes, upHead,
                   note, rev, cret, gret, rret, coCalls, hadChanges,
                   committed, noted, pushes, pushRes, lastNote, lastRev,
                   localTag, upTag, umRev, prevRev, tagMoved, umOutcome,
                   shimRev, shimWritten, gitRan>>

\* CommitAndPush(ctx, commitAction, note) is called
CommitAndPushCall ==
    /\ cpc = "idle"
    /\ coCalls < MaxCoCalls
    /\ head < MaxCommits
    /\ coCalls' = coCalls + 1
    /\ note' \in NoteArgs \cup {NilNote}
    /\ hadChanges' = (tree = "paths")
    /\ cpc' = "cp_check"
    /\ UNCHANGED <<repoVars, kVars, yVars, conf, realNotesRef, tree, head, notes, upHead,
                   rev, cret, gret, rret, committed, noted, pushes, pushRes,
                   lastNote, lastRev, localTag, upTag, umRev, prevRev,
                   tagMoved, umOutcome, shimRev, shimWritten, gitRan>>

\* lines 85-87: `if !check(...) { return ErrNoChanges }`
CpCheck ==
    /\ cpc = "cp_check"
    /\ ops' = Append(ops, "check")
    /\ \E ran \in BOOLEAN :
         IF check(tree, ran)
         THEN /\ cpc' = "cp_commit"
              /\ UNCHANGED cret
         ELSE /\ cpc' = "cp_ret"
              /\ cret' = ErrNoChanges
    /\ UNCHANGED <<repoVars, refs, yVars, conf, realNotesRef, tree, head, notes, upHead,
                   note, rev, gret, rret, coCalls, hadChanges, committed,
                   noted, pushes, pushRes, lastNote, lastRev, localTag,
                   upTag, umRev, prevRev, tagMoved, umOutcome, shimRev,
                   shimWritten, gitRan>>

\* lines 89-96: commit(ctx, c.dir, commitAction)
CpCommit ==
    /\ cpc = "cp_commit"
    /\ ops' = Append(ops, "commit")
    /\ \E ok \in Outcomes(CommitCanSucceed(tree)) :
         IF ok
         THEN /\ head' = head + 1
              /\ tree' = "clean"
              /\ committed' = TRUE
              /\ cpc' = AfterCommit(note)
              /\ UNCHANGED cret
         ELSE /\ cpc' = "cp_ret"
              /\ cret' = CommitErr
              /\ UNCHANGED <<head, tree, committed>>
    /\ UNCHANGED <<repoVars, refs, yVars, conf, realNotesRef, notes, upHead, note, rev,
                   gret, rret, coCalls, hadChanges, noted, pushes, pushRes,
                   lastNote, lastRev, localTag, upTag, umRev, prevRev,
                   tagMoved, umOutcome, shimRev, shimWritten, gitRan>>

\* lines 98-102: rev, err := c.HeadRevision(ctx)
CpHeadRevision ==
    /\ cpc = "cp_head"
    /\ ops' = Append(ops, "headRevision")
    /\ \E ran \in BOOLEAN :
         IF refRevision(RevOf(head), ran).err = Nil
         THEN /\ rev' = refRevision(RevOf(head), ran).rev
              /\ cpc' = "cp_note"
              /\ UNCHANGED cret
         ELSE /\ cret' = refRevision(RevOf(head), ran).err
              /\ cpc' = "cp_ret"
              /\ UNCHANGED rev
    /\ UNCHANGED <<repoVars, refs, yVars, conf, realNotesRef, tree, head, notes, upHead,
                   note, gret, rret, coCalls, hadChanges, committed, noted,
                   pushes, pushRes, lastNote, lastRev, localTag, upTag,
                   umRev, prevRev, tagMoved, umOutcome, shimRev, shimWritten,
                   gitRan>>

\* lines 103-105: addNote(ctx, c.dir, rev, c.config.NotesRef, note); git
\* refuses to add a note to an object that has one
CpAddNote ==
    /\ cpc = "cp_note"
    /\ ops' = Append(ops, "addNote")
    /\ \E ok \in Outcomes(notes[GitNotesRef(conf)][rev] = NoNote) :
         IF ok
         THEN /\ notes' = [notes EXCEPT ![GitNotesRef(conf)][rev] = Marshal(note)]
              /\ noted' = TRUE
              /\ cpc' = "cp_refexists"
              /\ UNCHANGED cret
         ELSE /\ cret' = GitErr
              /\ cpc' = "cp_ret"
              /\ UNCHANGED <<notes, noted>>
    /\ UNCHANGED <<repoVars, refs, yVars, conf, realNotesRef, tree, head, upHead, note,
                   rev, gret, rret, coCalls, hadChanges, committed, pushes,
                   pushRes, lastNote, lastRev, localTag, upTag, umRev,
                   prevRev, tagMoved, umOutcome, shimRev, shimWritten,
                   gitRan>>

\* lines 108-116: refExists(ctx, c.dir, c.realNotesRef); "unknown revision"
\* is (false, nil), every other failure is returned
CpRefExists ==
    /\ cpc = "cp_refexists"
    /\ ops' = Append(ops, "refExists")
    /\ \E ran \in BOOLEAN :
         IF ran
         THEN /\ cpc' = "cp_push"
              /\ refs' = PushRefs(NotesRefExists(notes, realNotesRef), realNotesRef)
              /\ UNCHANGED cret
         ELSE /\ cret' = GitErr
              /\ cpc' = "cp_ret"
              /\ UNCHANGED refs
    /\ UNCHANGED <<repoVars, yVars, conf, realNotesRef, tree, head, notes, upHead,
                   note, rev, gret, rret, coCalls, hadChanges, committed,
                   noted, pushes, pushRes, lastNote, lastRev, localTag,
                   upTag, umRev, prevRev, tagMoved, umOutcome, shimRev,
                   shimWritten, gitRan>>

\* lines 118-121: push(ctx, c.dir, c.upstream.URL, refs), once
CpPush ==
    /\ cpc = "cp_push"
    /\ ops' = Append(ops, "push")
    /\ pushes' = pushes + 1
    /\ cpc' = "cp_ret"
    /\ \E ok \in BOOLEAN :
         IF ok
         THEN /\ upHead' = head
              /\ pushRes' = "ok"
              /\ stranded' = FALSE
              /\ cret' = Nil
              /\ lastRev' = RevOf(head)
              /\ lastNote' = note
         ELSE /\ pushRes' = "failed"
              /\ stranded' = TRUE
              /\ cret' = PushFailResult(url, PushErr)
              /\ UNCHANGED <<upHead, lastRev, lastNote>>
    /\ UNCHANGED <<repoVars, refs, cmRev, cmName, lastUm, tagUm, fin, fout, conf, realNotesRef, tree, head, notes, note,
                   rev, gret, rret, coCalls, hadChanges, committed, noted,
                   localTag, upTag, umRev, prevRev, tagMoved, umOutcome,
                   shimRev, shimWritten, gitRan>>

\* lines 125-127: GetNote(ctx, rev, note) for a revision of the checkout
GetNoteCall ==
    /\ cpc = "idle"
    /\ coCalls < MaxCoCalls
    /\ coCalls' = coCalls + 1
    /\ cpc' = "gn_ret"
    /\ \E r \in {RevOf(i) : i \in 0..head}, ran \in BOOLEAN :
         /\ rev' = r
         /\ gitRan' = ran
         /\ gret' = getNote(notes, realNotesRef, r, ran)
    /\ UNCHANGED <<repoVars, kVars, yVars, conf, realNotesRef, tree, head, notes, upHead,
                   note, cret, rret, hadChanges, committed, noted, pushes,
                   pushRes, lastNote, lastRev, localTag, upTag, umRev,
                   prevRev, tagMoved, umOutcome, shimRev, shimWritten>>

(* ---------------- GitTagSyncProvider ---------------- *)

\* sync.go lines 45-54: UpdateMarker(ctx, action) is called; the result of
\* config(...) is dropped
UpdateMarkerCall ==
    /\ cpc = "idle"
    /\ coCalls < MaxCoCalls
    /\ coCalls' = coCalls + 1
    /\ umRev' \in {RevOf(i) : i \in 0..head}
    /\ prevRev' = localTag
    /\ umOutcome' = "none"
    /\ cpc' = "um_tag"
    /\ UNCHANGED <<repoVars, kVars, yVars, conf, realNotesRef, tree, head, notes, upHead,
                   note, rev, cret, gret, rret, hadChanges, committed, noted,
                   pushes, pushRes, lastNote, lastRev, localTag, upTag,
                   tagMoved, shimRev, shimWritten, gitRan>>

\* sync.go lines 56-64: `git tag --force --annotate`, in workingDir
UmTag ==
    /\ cpc = "um_tag"
    /\ \E ok \in BOOLEAN :
         IF ok
         THEN /\ localTag' = umRev
              /\ tagMoved' = TRUE
              /\ cpc' = "um_push"
              /\ UNCHANGED <<cret, umOutcome>>
         ELSE /\ cret' = MoveTagErr
              /\ umOutcome' = "move_failed"
              /\ cpc' = "um_ret"
              /\ UNCHANGED <<localTag, tagMoved>>
    /\ UNCHANGED <<repoVars, kVars, yVars, conf, realNotesRef, tree, head, notes, upHead,
                   note, rev, gret, rret, coCalls, hadChanges, committed,
                   noted, pushes, pushRes, lastNote, lastRev, upTag, umRev,
                   prevRev, shimRev, shimWritten, gitRan>>

\* sync.go lines 65-70: `git push --force upstream tag`
UmPush ==
    /\ cpc = "um_push"
    /\ pushes' = pushes + 1
    /\ cpc' = "um_ret"
    /\ \E ok \in BOOLEAN :
         /\ cret' = UmPushResult(ok)
         /\ pushRes' = IF ok THEN "ok" ELSE "failed"
         /\ umOutcome' = IF ok THEN "ok" ELSE "push_failed"
         /\ upTag' = IF ok THEN localTag ELSE upTag
         /\ tagUm' = IF UmPushResult(ok) = Nil THEN umRev ELSE tagUm
    /\ UNCHANGED <<repoVars, kVars, cmRev, cmName, lastUm, stranded, fin, fout, conf, realNotesRef, tree, head, notes, upHead,
                   note, rev, gret, rret, coCalls, hadChanges, committed,
                   noted, lastNote, lastRev, localTag, umRev, prevRev,
                   tagMoved, shimRev, shimWritten, gitRan>>

\* sync.go lines 40-42: GetRevision reads the tag in workingDir
GetRevisionCall ==
    /\ cpc = "idle"
    /\ coCalls < MaxCoCalls
    /\ coCalls' = coCalls + 1
    /\ cpc' = "gr_ret"
    /\ \E ran \in BOOLEAN :
         /\ gitRan' = ran
         /\ rret' = refRevision(localTag, ran)
    /\ UNCHANGED <<repoVars, kVars, yVars, conf, realNotesRef, tree, head, notes, upHead,
                   note, rev, cret, gret, hadChanges, committed, noted,
                   pushes, pushRes, lastNote, lastRev, localTag, upTag,
                   umRev, prevRev, tagMoved, umOutcome, shimRev, shimWritten>>

(* ---------------- NativeSyncProvider ---------------- *)

\* an update that does not replace a revision already recorded
NativeShimUpdate_KeepFirst(shim, r) == IF shim = ZeroRev THEN r ELSE shim
\* working.go line 348: nativeShim.data.FluxSync.Revision after UpdateMarker
NativeShimUpdate(shim, r) == r

\* working.go lines 347-351
NativeUpdateMarker ==
    /\ cpc = "idle"
    /\ coCalls < MaxCoCalls
    /\ coCalls' = coCalls + 1
    /\ \E r \in Revisions :
         /\ shimRev' = NativeShimUpdate(shimRev, r)
         /\ lastUm' = r
    /\ shimWritten' = TRUE
    /\ cret' = Nil
    /\ cpc' = "num_ret"
    /\ UNCHANGED <<repoVars, kVars, cmRev, cmName, tagUm, stranded, fin, fout, conf, realNotesRef, tree, head, notes, upHead,
                   note, rev, gret, rret, hadChanges, committed, noted,
                   pushes, pushRes, lastNote, lastRev, localTag, upTag,
                   umRev, prevRev, tagMoved, umOutcome, gitRan>>

\* working.go lines 354-357
NativeDeleteMarker ==
    /\ cpc = "idle"
    /\ coCalls < MaxCoCalls
    /\ coCalls' = coCalls + 1
    /\ shimRev' = ZeroRev
    /\ lastUm' = ZeroRev
    /\ shimWritten' = FALSE
    /\ cret' = Nil
    /\ cpc' = "ndm_ret"
    /\ UNCHANGED <<repoVars, kVars, cmRev, cmName, tagUm, stranded, fin, fout, conf, realNotesRef, tree, head, notes, upHead,
                   note, rev, gret, rret, hadChanges, committed, noted,
                   pushes, pushRes, lastNote, lastRev, localTag, upTag,
                   umRev, prevRev, tagMoved, umOutcome, gitRan>>

\* working.go lines 342-344
NativeGetRevision ==
    /\ cpc = "idle"
    /\ coCalls < MaxCoCalls
    /\ coCalls' = coCalls + 1
    /\ rret' = [rev |-> shimRev, err |-> Nil]
    /\ cpc' = "ngr_ret"
    /\ UNCHANGED <<repoVars, kVars, yVars, conf, realNotesRef, tree, head, notes, upHead,
                   note, rev, cret, gret, hadChanges, committed, noted,
                   pushes, pushRes, lastNote, lastRev, localTag, upTag,
                   umRev, prevRev, tagMoved, umOutcome, shimRev, shimWritten,
                   gitRan>>

\* positions at which a call on the checkout or a provider has its result
CoReturnPcs == {"cp_ret", "gn_ret", "um_ret", "gr_ret", "num_ret", "ndm_ret",
                "ngr_ret", "usm_ret", "smr_ret"}

\* the caller goes on
CoReturn ==
    /\ cpc \in CoReturnPcs
    /\ cpc' = "idle"
    /\ note' = NilNote
    /\ rev' = ZeroRev
    /\ cret' = Nil
    /\ gret' = NoNoteResult
    /\ rret' = NoRevResult
    /\ hadChanges' = FALSE
    /\ committed' = FALSE
    /\ noted' = FALSE
    /\ pushes' = 0
    /\ pushRes' = "none"
    /\ umRev' = ZeroRev
    /\ tagMoved' = FALSE
    /\ gitRan' = FALSE
    /\ ops' = <<>>
    /\ refs' = <<>>
    /\ UNCHANGED <<repoVars, yVars, conf, realNotesRef, tree, head, notes, upHead,
                   coCalls, lastNote, lastRev, localTag, upTag, prevRev,
                   umOutcome, shimRev, shimWritten>>

NextCo ==
    \/ Edit
    \/ CommitAndPushCall
    \/ CpCheck
    \/ CpCommit
    \/ CpHeadRevision
    \/ CpAddNote
    \/ CpRefExists
    \/ CpPush
    \/ GetNoteCall
    \/ UpdateMarkerCall
    \/ UmTag
    \/ UmPush
    \/ GetRevisionCall
    \/ NativeUpdateMarker
    \/ NativeDeleteMarker
    \/ NativeGetRevision
    \/ CoReturn

SpecCo == InitCo /\ [][NextCo]_vars

(* ---------------- the resource-backed marker of a read-only Checkout ---------------- *)

\* a Ready mirror on which no goroutine is at work, as Init's variables have
\* it once Ready() has returned nil; `calls` foreground calls have been made
ReadyMirrorState(ro, mode, calls) ==
    /\ url = SomeURL
    /\ readonly = ro
    /\ stateMode = mode
    /\ status = RepoReady
    /\ err = Nil
    /\ dir = TmpDir
    /\ fs = "mirror"
    /\ notify = 0
    /\ C = 1
    /\ muW = NoProc
    /\ muR = {}
    /\ pc = [p \in Procs |-> IF p = StartP THEN "st_init" ELSE "idle"]
    /\ ldir = [p \in Procs |-> NoDir]
    /\ lerr = [p \in Procs |-> Nil]
    /\ adv = [p \in Procs |-> FALSE]
    /\ ret = [p \in Procs |-> Nil]
    /\ shutdown = FALSE
    /\ gitPoll = "idle"
    /\ done = 1
    /\ fgCalls = calls
    /\ progress = 0
    /\ failed = FALSE
    /\ notifyDropped = FALSE
    /\ mirrorHead = 0
    /\ mirrorTag = ZeroRev
    /\ cloneSrcs = {}
    /\ probed = {}

\* part_003 lines 17-20: updateConfigMapState(ctx, configMapName, action);
\* the shim after the call
updateConfigMapState(shim, configMapName, r) == r

\* part_003 lines 24-27: getConfigMapSyncMarkerRevision(ctx), as the
\* Checkout whose SyncMarkerName is n calls it (working.go 135-138)
SyncMarkerRevisionOf(n) == cmRev

\* working.go lines 144-150: UpdateSyncMarker on a read-only Checkout whose
\* Config.SyncMarkerName is n
UpdateSyncMarker ==
    /\ cpc = "idle"
    /\ coCalls < MaxCoCalls
    /\ coCalls' = coCalls + 1
    /\ \E n \in MarkerNames, r \in Revisions :
         /\ cmName' = n
         /\ cmRev' = updateConfigMapState(cmRev, n, r)
    /\ cret' = Nil
    /\ cpc' = "usm_ret"
    /\ UNCHANGED <<repoVars, kVars, lastUm, tagUm, stranded, fin, fout, conf, realNotesRef, tree, head,
                   notes, upHead, note, rev, gret, rret, hadChanges,
                   committed, noted, pushes, pushRes, lastNote, lastRev,
                   localTag, upTag, umRev, prevRev, tagMoved, umOutcome,
                   shimRev, shimWritten, gitRan>>

\* working.go lines 135-138: SyncMarkerRevision on a read-only Checkout whose
\* Config.SyncMarkerName is n
SyncMarkerRevision ==
    /\ cpc = "idle"
    /\ coCalls < MaxCoCalls
    /\ coCalls' = coCalls + 1
    /\ \E n \in MarkerNames :
         /\ cmName' = n
         /\ rret' = [rev |-> SyncMarkerRevisionOf(n), err |-> Nil]
    /\ cpc' = "smr_ret"
    /\ UNCHANGED <<repoVars, kVars, cmRev, lastUm, tagUm, stranded, fin, fout, conf, realNotesRef, tree,
                   head, notes, upHead, note, rev, cret, gret, hadChanges,
                   committed, noted, pushes, pushRes, lastNote, lastRev,
                   localTag, upTag, umRev, prevRev, tagMoved, umOutcome,
                   shimRev, shimWritten, gitRan>>

\* read-only checkouts of a Ready mirror with the resource-backed marker
InitMarker ==
    /\ ReadyMirrorState(TRUE, NativeStateMode, MaxFgCalls)
    /\ CheckoutState("idle", <<"flux">>, ZeroRev, FALSE)

NextMarker ==
    \/ UpdateSyncMarker
    \/ SyncMarkerRevision
    \/ NativeUpdateMarker
    \/ NativeDeleteMarker
    \/ NativeGetRevision
    \/ CoReturn

SpecMarker == InitMarker /\ [][NextMarker]_vars

(* ---------------- execGitCmd ---------------- *)

\* lines of standard error the git process writes in one invocation
MaxStderrLines == 2

\* a line of standard error: what it starts with, then its characters
LinePrefixes == {"fatal: ", "ERROR fatal: ", "error:", ""}
LineBodies == {<<"x">>, <<"e">>}
StderrLines == {<<pf>> \o b : pf \in LinePrefixes, b \in LineBodies}
StderrOutputs ==
    UNION {[1..n -> StderrLines] : n \in 0..MaxStderrLines}

\* the cutset of `strings.Trim(sc.Text(), "error: ")`
TrimCutset == {"error:", "e", "r", "o", ":", " "}

RECURSIVE TrimLeft(_)
TrimLeft(t) ==
    IF t # <<>> /\ Head(t) \in TrimCutset THEN TrimLeft(Tail(t)) ELSE t

RECURSIVE TrimRight(_)
TrimRight(t) ==
    IF t # <<>> /\ t[Len(t)] \in TrimCutset
    THEN TrimRight(SubSeq(t, 1, Len(t) - 1))
    ELSE t

\* part_002 lines 398-412: the first line with a known prefix decides; the
\* empty sequence is the empty string
RECURSIVE findErrorMessage(_)
findErrorMessage(output) ==
    IF output = <<>> THEN <<>>
    ELSE IF Head(output)[1] \in {"fatal: ", "ERROR fatal: "} THEN Head(output)
    ELSE IF Head(output)[1] = "error:" THEN TrimRight(TrimLeft(Head(output)))
    ELSE findErrorMessage(Tail(output))

DeadlineExceeded == <<"context deadline exceeded">>
Canceled == <<"context canceled">>
ExitErr == <<"exit status 1">>
KilledErr == <<"signal: killed">>

\* errors.Wrap(e, msg)
Wrap(e, msg) == <<msg>> \o e

\* ctx.Err() when c.Run() has returned
CtxErr(c) ==
    IF c = "deadline" THEN DeadlineExceeded
    ELSE IF c = "canceled" THEN Canceled
    ELSE Nil

\* lines 357-363: the error of c.Run(), replaced by the message found on
\* standard error when there is one
RunResult(run, output) ==
    IF run = "ok" THEN Nil
    ELSE IF findErrorMessage(output) # <<>> THEN findErrorMessage(output)
    ELSE IF run = "killed" THEN KilledErr
    ELSE ExitErr

\* a return that lets the result of the tool go first
execGitCmdReturn_ToolFirst(ctxErr, e) ==
    IF e # Nil THEN e
    ELSE IF ctxErr = DeadlineExceeded THEN Wrap(ctxErr, "running git command")
    ELSE IF ctxErr = Canceled
    THEN Wrap(ctxErr, "context was unexpectedly cancelled when running git command")
    ELSE e
\* lines 364-369: what execGitCmd returns, given ctx.Err() and the error e
execGitCmdReturn(ctxErr, e) ==
    IF ctxErr = DeadlineExceeded THEN Wrap(ctxErr, "running git command")
    ELSE IF ctxErr = Canceled
    THEN Wrap(ctxErr, "context was unexpectedly cancelled when running git command")
    ELSE e

\* the calls of execGitCmd: how the process ends, what it wrote on standard
\* error, and the state of the context when it has ended. A process the
\* context killed leaves a context that is done.
ExecInputs ==
    {i \in [run : {"ok", "exit", "killed"}, stderr : StderrOutputs,
            ctx : {"live", "deadline", "canceled"}] :
        i.run = "killed" => i.ctx # "live"}

\* line 346: exec.CommandContext is built; and line 357: c.Run(), once
ExecRun ==
    /\ fout.st = "called"
    /\ fout' = [fout EXCEPT !.st = "ran", !.runs = @ + 1,
                            !.runErr = RunResult(fin.run, fin.stderr)]
    /\ UNCHANGED <<repoVars, kVars, cmRev, cmName, lastUm, tagUm, stranded, fin, cpc, conf, realNotesRef,
                   tree, head, notes, upHead, note, rev, cret, gret, rret,
                   coCalls, hadChanges, committed, noted, pushes, pushRes,
                   lastNote, lastRev, localTag, upTag, umRev, prevRev,
                   tagMoved, umOutcome, shimRev, shimWritten, gitRan>>

\* lines 364-369: the return
ExecReturn ==
    /\ fout.st = "ran"
    /\ fout' = [fout EXCEPT !.st = "returned",
                            !.err = execGitCmdReturn(CtxErr(fin.ctx), fout.runErr)]
    /\ UNCHANGED <<repoVars, kVars, cmRev, cmName, lastUm, tagUm, stranded, fin, cpc, conf, realNotesRef,
                   tree, head, notes, upHead, note, rev, cret, gret, rret,
                   coCalls, hadChanges, committed, noted, pushes, pushRes,
                   lastNote, lastRev, localTag, upTag, umRev, prevRev,
                   tagMoved, umOutcome, shimRev, shimWritten, gitRan>>

\* every variable but fin and fout as Init has it
RestOfInit ==
    /\ url = SomeURL
    /\ readonly = FALSE
    /\ stateMode = GitTagStateMode
    /\ status = NewRepoStatus(url)
    /\ err = ErrNotCloned
    /\ dir = TmpDir
    /\ fs = "empty"
    /\ notify = 0
    /\ C = 0
    /\ muW = NoProc
    /\ muR = {}
    /\ pc = [p \in Procs |-> IF p = StartP THEN "st_init" ELSE "idle"]
    /\ ldir = [p \in Procs |-> NoDir]
    /\ lerr = [p \in Procs |-> Nil]
    /\ adv = [p \in Procs |-> FALSE]
    /\ ret = [p \in Procs |-> Nil]
    /\ shutdown = FALSE
    /\ gitPoll = "idle"
    /\ done = 1
    /\ fgCalls = 0
    /\ progress = 0
    /\ failed = FALSE
    /\ notifyDropped = FALSE
    /\ mirrorHead = 0
    /\ mirrorTag = ZeroRev
    /\ cloneSrcs = {}
    /\ probed = {}
    /\ cpc = "none"
    /\ conf = <<"flux">>
    /\ realNotesRef = GitNotesRef(<<"flux">>)
    /\ tree = "clean"
    /\ head = 0
    /\ notes = [f \in FullNotesRefs |-> [r \in Revisions |-> NoNote]]
    /\ upHead = 0
    /\ note = NilNote
    /\ rev = ZeroRev
    /\ cret = Nil
    /\ gret = NoNoteResult
    /\ rret = NoRevResult
    /\ coCalls = 0
    /\ hadChanges = FALSE
    /\ committed = FALSE
    /\ noted = FALSE
    /\ pushes = 0
    /\ pushRes = "none"
    /\ lastNote = NilNote
    /\ lastRev = ZeroRev
    /\ localTag = ZeroRev
    /\ upTag = ZeroRev
    /\ umRev = ZeroRev
    /\ prevRev = ZeroRev
    /\ tagMoved = FALSE
    /\ umOutcome = "none"
    /\ shimRev = ZeroRev
    /\ shimWritten = FALSE
    /\ gitRan = FALSE
    /\ ops = <<>>
    /\ refs = <<>>
    /\ cmRev = ZeroRev
    /\ cmName = NoName
    /\ lastUm = ZeroRev
    /\ tagUm = ZeroRev
    /\ stranded = FALSE

\* execGitCmd has been called
InitExec ==
    /\ RestOfInit
    /\ fin \in ExecInputs
    /\ fout = [st |-> "called", runs |-> 0, runErr |-> Nil, err |-> Nil]

NextExec ==
    \/ ExecRun
    \/ ExecReturn

SpecExec == InitExec /\ [][NextExec]_vars

(* ---------------- two drivers: Start and a foreground Ready() ---------------- *)

\* the Start goroutine with its environment, and a goroutine calling Ready();
\* nobody calls Clean, Refresh, Clone or a read operation
NextDrivers ==
    \/ StartCall
    \/ StartStep
    \/ StartAdvanced
    \/ StartStatus
    \/ StartBackoff
    \/ RlShutdown
    \/ RlTick
    \/ RlNotify
    \/ StartRefresh
    \/ RlRefreshed
    \/ StartDemote
    \/ Tick
    \/ Shutdown
    \/ Notify
    \/ ReceiveC
    \/ ReadyCall
    \/ FgStep
    \/ ReadyLoop
    \/ ReadyStatus
    \/ FgReturn

SpecDrivers == Init /\ [][NextDrivers]_vars

(* ---------------- Clone, CommitAndPush and Refresh, one caller ---------------- *)

\* repo.go lines 455-462: Clone returns the Checkout of the working clone it
\* made from the mirror directory
CloneReturnsCheckout ==
    /\ pc[FgP] = "clone_ret"
    /\ ret[FgP] = Nil
    /\ cpc = "none"
    /\ cpc' = "idle"
    /\ head' = mirrorHead
    /\ tree' = "clean"
    /\ pc' = [pc EXCEPT ![FgP] = "idle"]
    /\ cloneSrcs' = {}
    /\ UNCHANGED <<cfgVars, mirrorHead, mirrorTag, probed, status, err, dir, fs, notify, C,
                   muW, muR, ldir, lerr, adv, ret, shutdown, gitPoll, done,
                   fgCalls, progress, failed, notifyDropped, kVars, yVars,
                   conf, realNotesRef, notes, upHead, note, rev, cret, gret,
                   rret, coCalls, hadChanges, committed, noted, pushes,
                   pushRes, lastNote, lastRev, localTag, upTag, umRev,
                   prevRev, tagMoved, umOutcome, shimRev, shimWritten,
                   gitRan>>

\* a Ready mirror of which no Checkout has been made yet
InitTx ==
    /\ ReadyMirrorState(FALSE, GitTagStateMode, 0)
    /\ CheckoutState("none", <<"flux">>, ZeroRev, FALSE)

\* the caller is inside no call on the mirror
MirrorIdle == pc[FgP] = "idle"
\* the caller is inside no call on the Checkout
CheckoutIdle == cpc \in {"none", "idle"}

\* the caller starts a call when the one before has returned
TxCloneCall == CheckoutIdle /\ CloneCall
TxRefreshCall == CheckoutIdle /\ RefreshCall
TxEdit == MirrorIdle /\ Edit
TxCommitAndPushCall == MirrorIdle /\ CommitAndPushCall

\* one goroutine that clones, edits, commits and pushes, and refreshes
NextTx ==
    \/ TxCloneCall
    \/ WorkingCloneLock
    \/ WorkingCloneReturn
    \/ CloneConfig
    \/ NotesFetchLock
    \/ NotesFetchReturn
    \/ CloneReturnsCheckout
    \/ FgReturn
    \/ TxRefreshCall
    \/ FgRefresh
    \/ TxEdit
    \/ TxCommitAndPushCall
    \/ CpCheck
    \/ CpCommit
    \/ CpHeadRevision
    \/ CpAddNote
    \/ CpRefExists
    \/ CpPush
    \/ CoReturn

SpecTx == InitTx /\ [][NextTx]_vars

(* ---------------- the commit of CommitAndPush ---------------- *)

\* tokens in the message the caller gives
MaxMsgLen == 2

\* strings are sequences of tokens; the skip suffix may occur in a message
SkipToken == "[ci skip]"
Messages == UNION {[1..n -> {"m", SkipToken}] : n \in 0..MaxMsgLen}
SkipMessages == {<<>>, <<SkipToken>>}
SigningKeys == {"", "K1", "K2"}
Authors == {"", "A"}

\* a commit message without the suffix
CommitMessage_NoSkip(message, skipMessage) == message
\* working.go line 89: `commitAction.Message += c.config.SkipMessage`
CommitMessage(message, skipMessage) == message \o skipMessage

\* working.go lines 90-92: the signing key of the commit
CommitSigningKey(key, configKey) == IF key = "" THEN configKey ELSE key

\* part_002 lines 110-117: the arguments of `git commit`
CommitArgs(action) ==
    <<<<"commit">>, <<"--no-verify">>, <<"--all">>, <<"--message">>, action.Message>>
        \o (IF action.Author # "" THEN <<<<"--author">>, <<action.Author>>>> ELSE <<>>)
        \o (IF action.SigningKey # ""
            THEN <<<<"--gpg-sign=", action.SigningKey>>>> ELSE <<>>)

\* the CommitAction of the caller and the Config of the Checkout
CommitInputs ==
    [Message : Messages, Author : Authors, SigningKey : SigningKeys,
     SkipMessage : SkipMessages, ConfigSigningKey : SigningKeys]

\* working.go lines 89-92
CpPrepare ==
    /\ fout.st = "called"
    /\ fout' = [fout EXCEPT
                  !.st = "prepared",
                  !.action = [Message |-> CommitMessage(fin.Message, fin.SkipMessage),
                              Author |-> fin.Author,
                              SigningKey |-> CommitSigningKey(fin.SigningKey,
                                                              fin.ConfigSigningKey)]]
    /\ UNCHANGED <<repoVars, kVars, cmRev, cmName, lastUm, tagUm, stranded, fin, cpc, conf, realNotesRef,
                   tree, head, notes, upHead, note, rev, cret, gret, rret,
                   coCalls, hadChanges, committed, noted, pushes, pushRes,
                   lastNote, lastRev, localTag, upTag, umRev, prevRev,
                   tagMoved, umOutcome, shimRev, shimWritten, gitRan>>

\* working.go line 94 and part_002 lines 109-118: commit builds the command
CpCommitArgs ==
    /\ fout.st = "prepared"
    /\ fout' = [fout EXCEPT !.st = "committing", !.args = CommitArgs(fout.action)]
    /\ UNCHANGED <<repoVars, kVars, cmRev, cmName, lastUm, tagUm, stranded, fin, cpc, conf, realNotesRef,
                   tree, head, notes, upHead, note, rev, cret, gret, rret,
                   coCalls, hadChanges, committed, noted, pushes, pushRes,
                   lastNote, lastRev, localTag, upTag, umRev, prevRev,
                   tagMoved, umOutcome, shimRev, shimWritten, gitRan>>

\* CommitAndPush has found changes and is about to commit
InitCommit ==
    /\ RestOfInit
    /\ fin \in CommitInputs
    /\ fout = [st |-> "called",
               action |-> [Message |-> fin.Message, Author |-> fin.Author,
                           SigningKey |-> fin.SigningKey],
               args |-> <<>>]

NextCommit ==
    \/ CpPrepare
    \/ CpCommitArgs

SpecCommit == InitCommit /\ [][NextCommit]_vars

(* ---------------- a sync: CommitAndPush, the tag marker, Refresh ---------------- *)

\* a Ready mirror and a Checkout of it; the sync tag does not exist yet
InitSync ==
    /\ ReadyMirrorState(FALSE, GitTagStateMode, 0)
    /\ CheckoutState("idle", <<"flux">>, ZeroRev, FALSE)

\* the caller starts a call on the tag provider when the one before has
\* returned
SyncUpdateMarkerCall == MirrorIdle /\ UpdateMarkerCall

\* one goroutine that commits and pushes, moves the sync tag and refreshes
\* the mirror, as the daemon's sync does
NextSync ==
    \/ TxEdit
    \/ TxCommitAndPushCall
    \/ CpCheck
    \/ CpCommit
    \/ CpHeadRevision
    \/ CpAddNote
    \/ CpRefExists
    \/ CpPush
    \/ SyncUpdateMarkerCall
    \/ UmTag
    \/ UmPush
    \/ CoReturn
    \/ TxRefreshCall
    \/ FgRefresh
    \/ FgReturn

SpecSync == InitSync /\ [][NextSync]_vars

(* ---------------- Start, its environment and Clean ---------------- *)

\* Start with its timers and channels, and an owner that may call Clean()
NextLoop ==
    \/ StartCall
    \/ StartStep
    \/ StartAdvanced
    \/ StartStatus
    \/ StartBackoff
    \/ RlShutdown
    \/ RlTick
    \/ RlNotify
    \/ StartRefresh
    \/ RlRefreshed
    \/ StartDemote
    \/ Tick
    \/ Shutdown
    \/ Notify
    \/ ReceiveC
    \/ Clean

\* the scheduling of SpecStartFair; Clean() takes the lock for an instant
\* only, so Start's Lock and RLock return
SpecLoopFair ==
    /\ Init
    /\ [][NextLoop]_vars
    /\ WF_vars(StartMoves)
    /\ SF_vars(RlShutdown)
    /\ SF_vars(StartBackoffShutdown)

(* ======================= properties ======================= *)

\* C1: when step() is invoked again and again by one goroutine, with no
\* Clean and no other caller, every change of the status is New->Cloned or
\* Cloned->Ready; in particular Ready never goes back to Cloned and NoConfig
\* is never entered.
C1_StepMonotone ==
    [][ \/ status' = status
        \/ (status = RepoNew /\ status' = RepoCloned)
        \/ (status = RepoCloned /\ status' = RepoReady) ]_vars

\* a second Ready() call that got from Cloned to Ready after the first one
\* stopped on a failed probe
C1_Witness ==
    /\ fgCalls = 2
    /\ progress = 1
    /\ status = RepoReady
    /\ pc[FgP] = "ready_done"

\* C2: a mirror constructed with an empty URL is NoConfig, and its steps
\* report no progress, start no git invocation and leave status, err and dir
\* (and the directory on disk) as NewRepo set them.
C2_NoConfigInert ==
    url = "" =>
        /\ status = RepoNoConfig
        /\ err = ErrNotCloned
        /\ dir = TmpDir
        /\ fs = "empty"
        /\ \A p \in Procs : pc[p] \notin ExternalPcs
        /\ ~adv[FgP]
        /\ progress = 0

C2_Witness ==
    /\ url = ""
    /\ fgCalls = 2
    /\ pc[FgP] = "ready_done"

\* C4: on a fresh mirror with a URL, a first Ready() during which no git
\* invocation failed ends after exactly two progressing steps, returns nil
\* and leaves Status() = (Ready, nil).
C4_ReadyScenario ==
    (pc[FgP] = "ready_done" /\ fgCalls = 1 /\ url # "" /\ ~failed) =>
        /\ progress = 2
        /\ ret[FgP] = Nil
        /\ status = RepoReady
        /\ err = Nil

C4_Witness ==
    /\ pc[FgP] = "ready_done"
    /\ fgCalls = 1
    /\ url # ""
    /\ ~readonly
    /\ ~failed
    /\ progress = 2

\* C3: NoConfig is terminal under every public operation, and a mirror with
\* an empty URL never has another status.
C3_NoConfigTerminal ==
    url = "" => status = RepoNoConfig

\* C5: Notify() can always run to completion, and at most one notification
\* is pending however many Notify() calls precede its consumption.
C5_NotifyCoalesces ==
    /\ notify <= 1
    /\ ENABLED Notify

\* a Notify() has just been dropped onto the pending notification
C5_Witness ==
    /\ notifyDropped
    /\ notify = 1

\* a fetch of the mirror returns successfully in this step
InitialFetchOk ==
    \E p \in Procs : pc[p] = "fetch" /\ pc'[p] = "setCloned"
RefreshFetchOk ==
    \E p \in Procs :
        pc[p] = "refresh_fetch" /\ pc'[p] = "refresh_ret" /\ ret'[p] = Nil
\* the mirror moves from Cloned to Ready in this step
BecomesReady ==
    \E p \in Procs : pc[p] = "setReady" /\ pc'[p] = "step_ret"

\* C6 as stated: every successful fetch of the mirror, and every transition
\* to Ready, leaves a signal pending in C.
C6_EveryFetchPublishes ==
    [][ (InitialFetchOk \/ RefreshFetchOk \/ BecomesReady) => C' = 1 ]_vars

\* C6 amended: every successful fetch made by Refresh, and every transition
\* to Ready, leaves a signal pending in C; C never holds more than one, and
\* the publisher is never kept waiting by C.
C6_RefreshPublishes ==
    /\ [](C <= 1)
    /\ [](\A p \in Procs :
            pc[p] = "refresh_fetch" => ENABLED RefreshFetchReturn(p))
    /\ [][ (RefreshFetchOk \/ BecomesReady) => C' = 1 ]_vars

\* Start's Refresh has just succeeded and its signal is pending
C6_Witness ==
    /\ pc[StartP] = "refresh_ret"
    /\ ret[StartP] = Nil
    /\ C = 1

\* C7: when the Refresh called by refreshLoop returns an error, Start leaves
\* the refresh loop with that error, records it with status New, and goes
\* straight back to step.
C7_RefreshFailureDemotes ==
    [][ /\ (pc[StartP] = "refresh_ret" /\ ret[StartP] # Nil
            /\ pc'[StartP] # pc[StartP])
           => (pc'[StartP] = "st_demote" /\ lerr'[StartP] = ret[StartP])
        /\ (pc[StartP] = "st_demote" /\ pc'[StartP] # pc[StartP])
           => (/\ status' = RepoNew
               /\ err' = lerr[StartP]
               /\ err' # Nil
               /\ pc'[StartP] = "step") ]_vars

\* Start has just demoted the mirror after a failed fetch
C7_Witness ==
    /\ pc[StartP] = "step"
    /\ status = RepoNew
    /\ err = FetchErr

\* C8: whenever the status is Cloned or Ready, dir is a non-empty path that
\* holds the mirror clone.
C8_DirValid ==
    status \in {RepoCloned, RepoReady} => (dir # NoDir /\ fs = "mirror")

\* C9: a Status() call never has to wait.
C9_StatusNeverBlocks ==
    pc[FgP] = "ready_status" => ENABLED ReadyStatus

\* C10: no two state-advancing git invocations are in flight at once.
C10_ExternalCallsSerialized ==
    Cardinality({p \in Procs : pc[p] \in ExternalPcs}) <= 1

\* C11: while a Refresh fetch is in flight, no other Refresh fetch and no
\* external call of a read operation on the mirror directory (Revision,
\* CommitsBefore, CommitsBetween, workingClone, the notes fetch of Clone) is
\* in flight.
C11_RefreshExclusive ==
    \A p \in Procs :
        pc[p] = "refresh_fetch" =>
            \A q \in Procs \ {p} :
                pc[q] \notin ({"refresh_fetch"} \cup ReadExternalPcs)

\* a Refresh fetch of Start is in flight while a read operation of the
\* foreground waits for the lock
C11_Witness ==
    /\ pc[StartP] = "refresh_fetch"
    /\ pc[FgP] \in {"read_lock", "wc_lock", "nf_lock"}

\* C18: Revision, CommitsBefore, CommitsBetween, Refresh and Clone, when they
\* find the status not Ready, go straight to their return without an
\* external call, with ErrNoConfig if the status is NoConfig and otherwise
\* with a NotReadyError that wraps the error the mirror has recorded.
C18_NotReadyNoExternalCall ==
    [][ \A p \in Procs :
          ( /\ pc[p] \in {"read_lock", "wc_lock", "refresh_lock"}
            /\ pc'[p] # pc[p]
            /\ status # RepoReady )
          => ( /\ pc'[p] \in FgReturnPcs
               /\ ret'[p] = IF status = RepoNoConfig THEN ErrNoConfig
                            ELSE NotReadyError(err) ) ]_vars

\* a read operation or Clone was refused with the error of a failed probe
C18_Witness ==
    /\ pc[FgP] \in {"read_ret", "clone_ret"}
    /\ ret[FgP] = NotReadyError(CheckPushErr)

\* C19: Start returns only when shutdown has been signalled or the status
\* is NoConfig; a failed clone, fetch, probe or refresh is held by Start
\* until it has been recorded as the mirror's error, and Start goes on.
C19_StartReturnsOnlyOnShutdownOrNoConfig ==
    [][ /\ (pc[StartP] # "st_done" /\ pc'[StartP] = "st_done")
            => (shutdown \/ status = RepoNoConfig)
        /\ (pc[StartP] \in {"step_fail", "setNew", "setClonedFail", "st_demote"})
            => lerr[StartP] # Nil
        /\ (lerr[StartP] # Nil /\ lerr'[StartP] = Nil)
            => (err' = lerr[StartP] /\ pc'[StartP] \in {"step", "step_ret"}) ]_vars

\* Start has recorded a failed clone and waits to try again, no shutdown
C19_Witness ==
    /\ pc[StartP] = "st_backoff"
    /\ err = MirrorErr
    /\ ~shutdown

\* C20: the WaitGroup is marked exactly when Start returns and only once;
\* once shutdown is closed Start eventually returns, wherever in its loop it
\* is; a mirror with no URL makes Start return without any shutdown.
C20_StartTerminates ==
    /\ [](done \in {0, 1} /\ (done = 0 <=> pc[StartP] = "st_done"))
    /\ (shutdown ~> pc[StartP] = "st_done")
    /\ (status = RepoNoConfig ~> pc[StartP] = "st_done")

\* C12: a CommitAndPush that began with no changes under the configured
\* paths returns ErrNoChanges, and has made no commit, attached no note
\* and attempted no push.
C12_NoChangesReturnsErrNoChanges ==
    (cpc = "cp_ret" /\ ~hadChanges)
        => (cret = ErrNoChanges /\ ~committed /\ ~noted /\ pushes = 0)

\* C13: after a tag-variant UpdateMarker whose push failed, called when a
\* marker was recorded, GetRevision (its git command having run) returns
\* what it returned before that call: the revision the tag had then.
C13_FailedPushKeepsMarker ==
    (cpc = "gr_ret" /\ gitRan /\ umOutcome = "push_failed" /\ prevRev # ZeroRev)
        => rret = refRevision(prevRev, TRUE)

\* C14: the tag-variant UpdateMarker returns nil only if it moved the local
\* tag and pushed it in that call; if the move fails no push is attempted
\* and an error is returned; if the push fails an error is returned.
C14_NilOnlyIfMovedAndPushed ==
    cpc = "um_ret" =>
        /\ (cret = Nil => (tagMoved /\ pushRes = "ok" /\ localTag = umRev
                                    /\ upTag = umRev))
        /\ (~tagMoved => (pushes = 0 /\ cret # Nil))
        /\ (pushRes = "failed" => cret # Nil)
        /\ pushes <= 1

\* the tag was moved and its push failed
C14_Witness ==
    /\ cpc = "um_ret"
    /\ tagMoved
    /\ pushRes = "failed"

\* C15: GetRevision of the resource-backed marker, when nothing is written
\* (never, or not since DeleteMarker), returns without error a result that
\* is neither the zero value of a revision nor a valid revision.
C15_NotFoundDistinct ==
    (cpc = "ngr_ret" /\ ~shimWritten)
        => (rret.err = Nil /\ rret.rev # ZeroRev /\ rret.rev \notin Revisions)

C17_PushFailureIsPushError ==
    cpc = "cp_ret" =>
        /\ pushes <= 1
        /\ pushRes = "failed"
             => (Len(cret) >= 2 /\ cret[1] = "PushError" /\ cret[2] = url
                 /\ pushes = 1)

\* a CommitAndPush has committed and its push failed
C17_Witness ==
    /\ cpc = "cp_ret"
    /\ committed
    /\ pushRes = "failed"

\* a git command of Start that had what it needs on disk has failed: the
\* remote, the network or the deadline made it fail
EnvFailure ==
    \/ /\ pc[StartP] = "mirror"
       /\ MirrorCanSucceed(ldir[StartP], fs)
       /\ pc'[StartP] = "step_fail"
    \/ /\ pc[StartP] = "fetch"
       /\ RepoCmdCanSucceed(dir, fs)
       /\ pc'[StartP] = "step_fail"
    \/ /\ pc[StartP] = "checkPush"
       /\ RepoCmdCanSucceed(ldir[StartP], fs)
       /\ pc'[StartP] = "setClonedFail"
    \/ /\ pc[StartP] = "refresh_fetch"
       /\ RepoCmdCanSucceed(dir, fs)
       /\ ret'[StartP] # Nil

\* C21: a configured mirror whose Start is never shut down, and for which
\* from some point on no git command fails for a cause outside the mirror,
\* is Ready again and again: Start keeps trying and the mirror gets there.
C21_EventuallyReady ==
    (url # "" /\ []~shutdown /\ <>[][~EnvFailure]_vars)
        => []<>(status = RepoReady)

\* a step of goroutine p that finds the mirror Cloned starts the write probe
ProbeBegins(p) == pc[p] = "step" /\ pc'[p] = "checkPush"
\* a step of goroutine p that finds the mirror Cloned goes on with no probe
ProbeSkipped(p) == pc[p] = "step" /\ pc'[p] = "setReady"
\* goroutine p makes the mirror Ready
MadeReadyBy(p) ==
    pc[p] = "setReady" /\ pc'[p] = "step_ret" /\ status' = RepoReady

\* C23: in the Cloned state the write probe is run exactly when the marker
\* is tag-backed: a resource-backed marker goes to Ready with no probe, a
\* tag-backed one never becomes Ready without a successful probe.
C23_ProbeIffTagBacked ==
    [][\A p \in Procs :
        /\ ProbeBegins(p) => stateMode = GitTagStateMode
        /\ ProbeSkipped(p) => stateMode # GitTagStateMode
        /\ MadeReadyBy(p) => (p \in probed <=> stateMode = GitTagStateMode)]_vars

\* C23, amended: the write probe is run exactly when the mirror is not
\* read-only or the marker is tag-backed. Only a read-only mirror with a
\* resource-backed marker goes to Ready with no probe; every other mirror
\* becomes Ready only after a successful probe.
C23_ProbeIffWriteNeeded ==
    [][\A p \in Procs :
        /\ ProbeBegins(p) => (~readonly \/ stateMode = GitTagStateMode)
        /\ ProbeSkipped(p) => (readonly /\ stateMode # GitTagStateMode)
        /\ MadeReadyBy(p) =>
             (p \in probed <=> (~readonly \/ stateMode = GitTagStateMode))]_vars

\* a writable mirror with a resource-backed marker is about to become Ready
\* after a successful probe
C23_Witness ==
    /\ stateMode = NativeStateMode
    /\ ~readonly
    /\ pc[FgP] = "setReady"
    /\ FgP \in probed

\* C24: the resource-backed marker is keyed by its configured name: an update
\* under one name leaves the revision read back under every other name as it
\* was.
C24_MarkerKeyedByName ==
    [][(cpc = "idle" /\ cpc' = "usm_ret") =>
         \A m \in MarkerNames \ {cmName'} :
             SyncMarkerRevisionOf(m)' = SyncMarkerRevisionOf(m)]_vars

\* the error e wraps the condition `cause`
Wraps(e, cause) ==
    /\ Len(e) > Len(cause)
    /\ SubSeq(e, Len(e) - Len(cause) + 1, Len(e)) = cause

\* C25: an external operation is one invocation of the process, and when the
\* deadline has passed or the context is cancelled by the time it ends, the
\* call returns an error wrapping that condition, whatever the tool reported.
C25_TimeoutAlwaysReported ==
    /\ fout.runs <= 1
    /\ fout.st = "returned" =>
         /\ fout.runs = 1
         /\ fin.ctx = "deadline" => Wraps(fout.err, DeadlineExceeded)
         /\ fin.ctx = "canceled" => Wraps(fout.err, Canceled)

\* the deadline passed while git was failing with a message of its own
C25_Witness ==
    /\ fout.st = "returned"
    /\ fin.ctx = "deadline"
    /\ fin.run = "exit"
    /\ findErrorMessage(fin.stderr) # <<>>
    /\ Wraps(fout.err, DeadlineExceeded)

\* goroutine p ends a step whose clone or initial fetch failed
FailedCloneEnds(p) == pc[p] = "setNew" /\ pc'[p] = "step_ret"
\* goroutine p ends a step whose write probe failed
FailedProbeEnds(p) == pc[p] = "setClonedFail" /\ pc'[p] = "step_ret"

\* C26: a failed attempt never changes the status. A failed clone or initial
\* fetch leaves the status New with the directory removed, a failed probe
\* leaves it Cloned; the failure becomes the last error and the step reports
\* no progress.
C26_FailedStepKeepsStatus ==
    [][\A p \in Procs :
        /\ FailedCloneEnds(p) =>
             /\ status = RepoNew /\ status' = RepoNew
             /\ fs' = "absent"
             /\ err' = lerr[p] /\ err' # Nil
             /\ ~adv'[p]
        /\ FailedProbeEnds(p) =>
             /\ status = RepoCloned /\ status' = RepoCloned
             /\ err' = lerr[p] /\ err' # Nil
             /\ ~adv'[p]]_vars

\* C27: with Start and a foreground Ready() both driving the mirror, the
\* status never goes from Ready back to Cloned, and no driver removes the
\* directory while the status is Cloned or Ready, nor does the status become
\* Cloned or Ready once the directory is removed.
C27_DriversKeepMirror ==
    /\ [][status = RepoReady => status' # RepoCloned]_vars
    /\ [](status \in {RepoCloned, RepoReady} => fs # "absent")

\* the caller is inside Clone
InClone ==
    pc[FgP] \in {"wc_lock", "wc_ext", "clone_cfg", "nf_lock", "nf_ext", "clone_ret"}
\* the caller is inside CommitAndPush
InCommitAndPush ==
    cpc \in {"cp_check", "cp_commit", "cp_head", "cp_note", "cp_refexists",
             "cp_push"}
\* the mirror directory and the Mirror's state
MirrorState == <<status, err, dir, fs, mirrorHead, notify, C>>
\* what the upstream repository holds
UpstreamState == <<upHead, upTag>>

\* C22: Clone works on the mirror directory only and changes neither the
\* upstream repository nor the mirror; CommitAndPush changes neither the
\* mirror directory nor the Mirror's state; the mirror gets a new commit only
\* by a fetch that succeeds.
C22_CheckoutLeavesMirrorAlone ==
    /\ [](cloneSrcs \subseteq {dir})
    /\ [][InClone => (UNCHANGED UpstreamState /\ UNCHANGED MirrorState)]_vars
    /\ [][InCommitAndPush => UNCHANGED MirrorState]_vars
    /\ [][mirrorHead' # mirrorHead =>
            (pc[FgP] = "refresh_fetch" /\ ret'[FgP] = Nil)]_vars

\* a commit of a Checkout made by Clone has been pushed and the mirror, still
\* Ready, does not have it
C22_Witness ==
    /\ cpc = "cp_ret"
    /\ pushRes = "ok"
    /\ upHead = 1
    /\ mirrorHead = 0
    /\ status = RepoReady
    /\ fgCalls >= 1

\* the external operations of a CommitAndPush that is given note n, in order
ExpectedOps(n) ==
    <<"check", "commit">>
        \o (IF n # NilNote THEN <<"headRevision", "addNote">> ELSE <<>>)
        \o <<"refExists", "push">>
IsPrefix(a, b) == Len(a) <= Len(b) /\ SubSeq(b, 1, Len(a)) = a
Contains(q, x) == \E i \in 1..Len(q) : q[i] = x

\* C28: within one CommitAndPush the operations run in the order diff check,
\* commit, note attachment (when a note is given), push; the push is tried
\* only after the commit and the note attachment succeeded, and a failed
\* commit, HEAD lookup, note attachment or notes-ref lookup returns its error
\* with nothing pushed.
C28_CommitNoteThenPush ==
    /\ IsPrefix(ops, ExpectedOps(note))
    /\ Contains(ops, "push") =>
         /\ pushes = 1
         /\ committed
         /\ note # NilNote => noted
    /\ (cpc = "cp_ret" /\ ops # <<>> /\ ops[Len(ops)] # "push") =>
         /\ pushes = 0
         /\ upHead < head \/ ~committed
         /\ cret # Nil
         /\ ops[Len(ops)] = "commit" => (cret = CommitErr /\ ~committed)
         /\ ops[Len(ops)] \in {"headRevision", "addNote", "refExists"} =>
              cret = GitErr

\* a note was given, the commit succeeded, the note could not be attached and
\* the call has returned the error without a push
C28_Witness ==
    /\ cpc = "cp_ret"
    /\ note # NilNote
    /\ ops = <<"check", "commit", "headRevision", "addNote">>
    /\ committed
    /\ cret = GitErr
    /\ pushes = 0

\* C29: the push of CommitAndPush always has the branch, and has the notes
\* ref exactly when that ref exists in the checkout at the time of the push:
\* it is there when this call attached a note or Clone fetched notes from the
\* mirror, and it is left out when no note has ever existed.
C29_PushRefs ==
    Contains(ops, "push") =>
        /\ refs[1] = Branch
        /\ Contains(refs, realNotesRef) <=> NotesRefExists(notes, realNotesRef)
        /\ noted => Contains(refs, realNotesRef)
        /\ notes[realNotesRef][RevOf(0)] # NoNote => Contains(refs, realNotesRef)
        /\ (\A r \in Revisions : notes[realNotesRef][r] = NoNote) => refs = <<Branch>>
        /\ Len(refs) <= 2

\* a push with the notes ref, for a note this call attached in a checkout
\* that had none
C29_Witness ==
    /\ Contains(ops, "push")
    /\ noted
    /\ notes[realNotesRef][RevOf(0)] = NoNote
    /\ refs = <<Branch, realNotesRef>>

\* the keys `git commit` is told to sign with
GpgSignKeys(args) ==
    {args[i][2] : i \in {j \in 6..Len(args) : args[j][1] = "--gpg-sign="}}

\* C30: the commit is made with the caller's message followed by the
\* configured skip suffix, appended once, and signed with the caller's key
\* when it is not empty, else with the key of the Checkout's configuration.
C30_CommitMessageAndKey ==
    fout.st = "committing" =>
        /\ fout.args[4] = <<"--message">>
        /\ fout.args[5] = fin.Message \o fin.SkipMessage
        /\ Len(fout.args[5]) = Len(fin.Message) + Len(fin.SkipMessage)
        /\ GpgSignKeys(fout.args) =
             (IF fin.SigningKey # "" THEN {fin.SigningKey}
              ELSE IF fin.ConfigSigningKey # "" THEN {fin.ConfigSigningKey}
              ELSE {})

\* a message that already ends with the suffix, no key given by the caller
C30_Witness ==
    /\ fout.st = "committing"
    /\ fin.Message = <<"m", SkipToken>>
    /\ fin.SkipMessage = <<SkipToken>>
    /\ fin.SigningKey = ""
    /\ fin.ConfigSigningKey = "K2"
    /\ fout.args[5] = <<"m", SkipToken, SkipToken>>

\* a call on the resource-backed provider or on the shim of a read-only
\* Checkout begins and ends
ResourceMarkerCall ==
    /\ cpc = "idle"
    /\ cpc' \in {"num_ret", "ndm_ret", "ngr_ret", "usm_ret", "smr_ret"}

\* C31: for the resource-backed provider GetRevision returns the revision of
\* the last UpdateMarker, or the never-set result when DeleteMarker came
\* last or nothing was written; a later UpdateMarker overwrites an earlier
\* one; no operation fails, runs git or changes a repository or the remote.
C31_ResourceMarkerAlgebra ==
    /\ [](cpc = "ngr_ret" => rret = [rev |-> lastUm, err |-> Nil])
    /\ []((cpc = "ngr_ret" /\ lastUm = ZeroRev) => rret = NoRevResult)
    /\ [](cpc \in {"num_ret", "ndm_ret", "usm_ret"} => cret = Nil)
    /\ [](cpc = "smr_ret" => rret.err = Nil)
    /\ [][ResourceMarkerCall =>
            /\ UNCHANGED <<head, tree, notes, localTag>>
            /\ UNCHANGED UpstreamState
            /\ UNCHANGED MirrorState
            /\ UNCHANGED <<pushes, gitRan>>]_vars

\* GetRevision returns the revision of a second UpdateMarker, which differs
\* from the one the shim held before it
C31_Witness ==
    /\ cpc = "ngr_ret"
    /\ coCalls = 3
    /\ lastUm = RevOf(1)
    /\ rret.rev = RevOf(1)

\* a Refresh of the foreground caller returns nil
RefreshSucceeds ==
    pc[FgP] = "refresh_fetch" /\ pc'[FgP] = "refresh_ret" /\ ret'[FgP] = Nil

\* C32: after the tag provider's UpdateMarker to revision R returned nil, a
\* Refresh that succeeds leaves the mirror with the sync tag at R, and so
\* does every later Refresh until another UpdateMarker succeeds; the tag of
\* the mirror moves only by a Refresh.
C32_RefreshShowsMarker ==
    /\ [][(RefreshSucceeds /\ tagUm # ZeroRev) => mirrorTag' = tagUm]_vars
    /\ [][mirrorTag' # mirrorTag => RefreshSucceeds]_vars

\* the mirror has been refreshed after the marker was moved a second time, to
\* the revision of a commit made in between
C32_Witness ==
    /\ pc[FgP] = "refresh_ret"
    /\ ret[FgP] = Nil
    /\ tagUm = RevOf(1)
    /\ mirrorTag = RevOf(1)
    /\ prevRev = RevOf(0)

\* Start is inside the call of Refresh that refreshLoop makes
InLoopRefresh == pc[StartP] \in {"refresh_lock", "refresh_fetch", "refresh_ret"}
\* refreshLoop has received the timer's tick and is at its select again
TickReceived == pc[StartP] = "rl_select" /\ gitPoll = "idle"
\* refreshLoop has received a notification and calls Refresh
NotifyReceived == pc[StartP] = "refresh_lock"
\* the fetch of refreshLoop's Refresh is running
LoopFetches == pc[StartP] = "refresh_fetch"

\* what C33 says of the loop short of the "eventually": a tick and a
\* notification pending together are one notification, whose receipt leaves
\* nothing pending; the timer is idle during the fetch and is armed only on
\* entering the loop or after a Refresh that returned nil; the loop calls
\* Refresh only on a notification, which only Notify() or a tick posts
C33_OneFetchPerWake ==
    /\ [][RlTick => notify' = 1]_vars
    /\ [][RlNotify => (notify' = 0 /\ gitPoll' = "idle")]_vars
    /\ [](InLoopRefresh => gitPoll = "idle")
    /\ [][(gitPoll' = "armed" /\ gitPoll # "armed")
            => \/ pc[StartP] = "st_status"
               \/ pc[StartP] = "refresh_ret" /\ ret[StartP] = Nil]_vars
    /\ [][(NotifyReceived' /\ ~NotifyReceived)
            => (pc[StartP] = "rl_select" /\ notify = 1)]_vars
    /\ [][notify' > notify => (Notify \/ RlTick)]_vars

\* C33 as stated: the above, and every tick and every notification that
\* the loop receives is followed by a fetch
C33_EveryWakeFetches ==
    /\ C33_OneFetchPerWake
    /\ (TickReceived ~> LoopFetches)
    /\ (NotifyReceived ~> LoopFetches)

\* C33, amended: the above, and a notification received is followed by a
\* fetch unless the mirror has left Ready when Refresh takes the lock; a tick
\* received is followed by one unless, besides, shutdown is closed
C33_EveryWakeFetchesUnlessStopped ==
    /\ C33_OneFetchPerWake
    /\ (TickReceived ~> (LoopFetches \/ shutdown \/ status # RepoReady))
    /\ (NotifyReceived ~> (LoopFetches \/ status # RepoReady))

\* the loop has received the tick while a notification was pending: the two
\* are one pending notification, with nothing closed and the mirror Ready
C33_Witness ==
    /\ TickReceived
    /\ notify = 1
    /\ notifyDropped
    /\ ~shutdown
    /\ status = RepoReady

\* C34: the recorded error is nil exactly when the status is Ready, after
\* every operation, Clean() included.
C34_ErrNilIffReady == (err = Nil) <=> (status = RepoReady)

\* the fetch of a foreground Refresh fails and Refresh returns
FgRefreshFails ==
    pc[FgP] = "refresh_fetch" /\ pc'[FgP] = "refresh_ret" /\ ret'[FgP] # Nil

\* C35: a foreground Refresh whose fetch fails returns the error of the
\* fetch and leaves status (Ready), err, dir and the refreshed signal as they
\* were; it is Start that, on leaving refreshLoop with an error, sets the
\* status to New and records that error.
C35_FailedRefreshKeepsMirror ==
    /\ [](pc[FgP] = "refresh_fetch" => status = RepoReady)
    /\ [][FgRefreshFails
            => /\ ret'[FgP] = FetchErr
               /\ status' = RepoReady
               /\ UNCHANGED <<status, err, dir, C>>]_vars
    /\ [][(pc[StartP] = "st_demote" /\ pc'[StartP] # "st_demote")
            => (status' = RepoNew /\ err' = lerr[StartP] /\ err' # Nil)]_vars

\* a foreground Refresh has returned the error of its fetch and the mirror
\* is Ready with no error recorded
C35_Witness ==
    /\ pc[FgP] = "refresh_ret"
    /\ ret[FgP] = FetchErr
    /\ status = RepoReady
    /\ err = Nil
    /\ muW = NoProc

\* Start goes on from the position q
StartLeaves(q) == pc[StartP] = q /\ pc'[StartP] # q
\* Start comes to the position q
StartEnters(q) == pc[StartP] # q /\ pc'[StartP] = q

\* C36: when refreshLoop has returned an error Start sets the status to New,
\* leaves the directory and what it holds alone and calls step at once; the
\* select on the 10 s timer is entered only after a step that returned false
\* with the status New or Cloned (or, with no wait, after refreshLoop
\* returned on shutdown); so the step after the demotion finds the status
\* New and runs the clone in the directory that still holds the mirror.
C36_DemotedRetriesAtOnce ==
    /\ [][StartLeaves("st_demote")
            => /\ status' = RepoNew
               /\ dir # NoDir /\ fs = "mirror"
               /\ UNCHANGED <<dir, fs>>
               /\ pc'[StartP] = "step"]_vars
    /\ [][StartEnters("st_backoff")
            => \/ pc[StartP] = "st_status" /\ status \in {RepoNew, RepoCloned}
               \/ pc[StartP] = "rl_select" /\ shutdown]_vars
    /\ [][StartEnters("st_status")
            => (pc[StartP] = "step_ret" /\ ~adv[StartP])]_vars
    /\ [][(StartLeaves("step") /\ status = RepoNew /\ fs = "mirror")
            => /\ pc'[StartP] = "mirror"
               /\ ldir'[StartP] = dir
               /\ fs' = "mirror"]_vars

\* after a failed refresh Start, demoted to New, runs the clone in the
\* directory that holds the mirror
C36_Witness ==
    /\ pc[StartP] = "mirror"
    /\ status = RepoNew
    /\ err = FetchErr
    /\ ldir[StartP] = dir
    /\ fs = "mirror"

\* the positions at which a goroutine holds the write side of r.mu: the two
\* fetches in r.dir
WriteHeldAt == {"fetch", "refresh_fetch"}
\* the positions at which a goroutine holds the read side: the git command of
\* a read operation, workingClone's clone and Clone's fetch of the notes
ReadHeldAt == {"read_ext", "wc_ext", "nf_ext"}

\* the step by which the holder p of the lock gives it back
Release(p) ==
    \/ FetchReturn(p)
    \/ RefreshFetchReturn(p)
    \/ (p = FgP /\ (ReadReturn \/ WorkingCloneReturn \/ NotesFetchReturn))

\* C37: the lock is taken only by a goroutine that holds neither side of it
\* and only when the lock allows it; it is held exactly during the git
\* command for which it was taken, so every return path has given it back;
\* and the holder can always go on to release it, whatever the notify and
\* refreshed channels hold.
C37_LockDiscipline ==
    /\ [](muW # NoProc => muR = {})
    /\ [](\A p \in Procs : /\ muW = p <=> pc[p] \in WriteHeldAt
                           /\ p \in muR <=> pc[p] \in ReadHeldAt)
    /\ [](\A p \in Procs : (muW = p \/ p \in muR) => ENABLED Release(p))
    /\ [][\A p \in Procs :
            /\ (muW' = p /\ muW # p) => (muW = NoProc /\ muR = {})
            /\ (p \in muR' /\ p \notin muR) => muW = NoProc]_vars

\* Clone's fetch of the notes has failed and Clone has returned the error
\* with the lock free, while both channels are full
C37_Witness ==
    /\ pc[FgP] = "clone_ret"
    /\ ret[FgP] = NotesFetchErr
    /\ muR = {}
    /\ muW = NoProc
    /\ notify = 1
    /\ C = 1

\* CommitAndPush leaves the check for the commit
CheckPasses == cpc = "cp_check" /\ cpc' = "cp_commit"

RetryReturns == cpc = "cp_ret" /\ stranded /\ ~Contains(ops, "push")

\* C39: such a retry returns ErrNoChanges and never comes to the push, and
\* the commit the failed call made stays unpushed.
C39_RetryReturnsErrNoChanges ==
    /\ RetryReturns => cret = ErrNoChanges
    /\ stranded => (tree = "clean" /\ upHead < head)
    /\ ~(stranded /\ cpc = "cp_push")

\* a read-only mirror whose marker is not the tag
ReadOnlyResourceBacked == readonly /\ stateMode # GitTagStateMode

\* C40: a read-only mirror whose marker is not tag-backed is never in the
\* write probe and nothing it does moves a branch or a tag of the origin; its
\* step in the Cloned state goes straight on to make it Ready. A mirror that
\* is not read-only is made Ready only by a step that has probed with
\* success, whatever its marker mode.
C40_ReadOnlyNeverWrites ==
    /\ [](ReadOnlyResourceBacked
            => (probed = {} /\ \A p \in Procs : pc[p] # "checkPush"))
    /\ [][ReadOnlyResourceBacked => UNCHANGED <<upHead, upTag>>]_vars
    /\ [][\A p \in Procs :
            (ReadOnlyResourceBacked /\ status = RepoCloned
                /\ pc[p] = "step" /\ pc'[p] # "step")
            => pc'[p] = "setReady"]_vars
    /\ [][\A p \in Procs :
            (pc[p] = "setReady" /\ pc'[p] # "setReady")
            => (status' = RepoReady /\ (~readonly => p \in probed))]_vars

\* a read-only mirror with a resource-backed marker is Ready, made so by the
\* foreground's Ready() with no probe
C40_Witness ==
    /\ ReadOnlyResourceBacked
    /\ status = RepoReady
    /\ err = Nil
    /\ fs = "mirror"
    /\ pc[FgP] = "ready_done"
    /\ ret[FgP] = Nil

====
